---- MODULE Spec2Model ----
(***************************************************************************)
(* State-machine model of the rw_core device-coordination engine:          *)
(*   - DeviceOwnership (rw_core/core/device_ownership.go, lines 29-165):   *)
(*     per-device lease reservation against the KV store and the           *)
(*     per-device monitoring goroutine;                                    *)
(*   - DeviceManager (rw_core/core/device_manager.go): the device agent    *)
(*     table, lookup-or-load, listing, reconciliation, child detection.    *)
(* Goroutines are modelled as program counters; every action is one        *)
(* atomic step of the code between two points where another goroutine      *)
(* can interleave (a lock acquisition, a KV round trip, a channel          *)
(* operation).                                                             *)
(***************************************************************************)
EXTENDS Integers, Sequences, FiniteSets, TLC

(***************************************************************************)
(* Bounds of the model.                                                    *)
(***************************************************************************)
\* NewDeviceOwnership's reservationTimeout argument (seconds).
reservationTimeout == 3
\* Number of stop channels (ownership entries) the replicas create in a run.
MaxChnl == 3

\* Number of values of the uint32 the onu id and port number are cut to.
Uint32Values == 4

Replicas == {"A", "B"}
\* Ids of the devices stored in the KV store when the replica starts, and the
\* ids newDeviceAgent gives, in this order, to devices that come without one.
KvIds == {"d1", "d2"}
FreshIds == <<"d3", "d4">>
DeviceIds == KvIds \cup {FreshIds[k] : k \in DOMAIN FreshIds}
\* Request goroutines that can be inside getOwnership at the same time.
Callers == {"t1", "t2"}
Chnls == 1 .. MaxChnl
None == "none"

(***************************************************************************)
(* Ownership state.                                                        *)
(***************************************************************************)
VARIABLES
    deviceMap,       \* DeviceOwnership.deviceMap: replica -> id -> ownership
    nextChnl,        \* replica -> channels made by `make(chan int)` so far
    closed,          \* replica -> set of channels closed by AbandonDevice
    monitor,         \* replica -> channel -> the goroutine started with it
    exitChannel,     \* DeviceOwnership.exitChannel: number of buffered values
    stopped,         \* Stop has been called on the replica
    calls,           \* replica -> caller -> position inside getOwnership
    kvReservations,  \* KV store: lease key (device id) -> owner and time left
    partitioned,     \* replicas whose KV calls currently fail
    last,            \* the call of the public interface that just returned
    overlap          \* id -> seconds two replicas have both had owned = true

ownVars == <<deviceMap, nextChnl, closed, monitor, exitChannel, stopped, calls,
             kvReservations, partitioned, last, overlap>>

(***************************************************************************)
(* Device manager state (the DeviceManager of replica coreInstanceId).     *)
(***************************************************************************)
VARIABLES
    devices,         \* clusterDataProxy "/devices": id -> device record
    deviceAgents,    \* DeviceManager.deviceAgents: id -> state of the agent in the table
    strays,          \* id -> agents started, never stopped and refused by the table
    hydrations,      \* id -> successful agent.start(nil, true) so far
    created,         \* ids handed out by newDeviceAgent so far
    stack,           \* caller -> its call stack inside the device manager
    ret,             \* caller -> what the call that just returned gave back
    dmLast,          \* the request that has just been answered, and its answer
    deleted          \* ids whose deletion by this replica has completed

dmVars == <<devices, deviceAgents, strays, hydrations, created, stack, ret,
            dmLast, deleted>>

(***************************************************************************)
(* The requests' contexts and reply channels.                              *)
(***************************************************************************)
VARIABLES
    ctxErr,          \* caller -> ctx.Err() # nil for the context of its request
    reply            \* caller -> what has been sent on its request's channel

rpcVars == <<ctxErr, reply>>

(***************************************************************************)
(* The adapter manager: its two maps, the "adapters" and "device_types"    *)
(* prefixes of the KV store, the wall clock, and the calls in progress.    *)
(***************************************************************************)
VARIABLES
    adapterAgents,           \* adapter id -> the AdapterAgent stored for it
    deviceTypeToAdapterMap,  \* device type id -> adapter id, "" when absent
    kvAdapters,              \* the ids stored under "adapters"
    kvDeviceTypes,           \* device type id -> adapter of the row under "device_types"
    running,                 \* start has returned nil in this process
    now,                     \* time.Now()
    regCalls,                \* caller -> its registry call in progress
    regLast                  \* the registry call that has just returned

regVars == <<adapterAgents, deviceTypeToAdapterMap, kvAdapters, kvDeviceTypes,
             running, now, regCalls, regLast>>

(***************************************************************************)
(* The locks of the adapter manager and of its agents, and the lock        *)
(* operations each call in progress has still to do.                       *)
(***************************************************************************)
VARIABLES
    rwLocks,         \* lock -> who holds it for writing, who for reading, who waits to write
    lockCalls        \* caller -> the lock operations left to do, the locks held in order

lockVars == <<rwLocks, lockCalls>>

\* What the device manager's own steps, other than sendResponse, leave alone.
extVars == <<rpcVars, regVars, lockVars>>

vars == <<ownVars, dmVars, extVars>>

(***************************************************************************)
(* Ownership: data and helpers.                                            *)
(***************************************************************************)
\* type ownership struct {id; owned; chnl}; chnl = 0 stands for "no entry".
NoOwnership == [owned |-> FALSE, chnl |-> 0]

\* `val, exist := da.deviceMap[id]`
exist(r, id) == deviceMap[r][id].chnl # 0

NoLease == [owner |-> None, ttl |-> 0]
NoMonitor == [pc |-> "idle", id |-> None, res |-> FALSE, value |-> None, timer |-> 0,
              lost |-> FALSE]
NoCaller == [pc |-> "idle", id |-> None, value |-> None]
NoCall == [op |-> "none", r |-> None, id |-> None, cold |-> FALSE,
           value |-> None, owned |-> FALSE, recorded |-> FALSE, err |-> ""]

\* kvClient.Reserve(kvKey, da.instanceId, da.reservationTimeout): the value it
\* returns (None: the call failed and returned nil) ...
ReserveValue(r, id) ==
    IF r \in partitioned THEN None
    ELSE IF kvReservations[id].owner = None THEN r
    ELSE kvReservations[id].owner

\* ... and the store it leaves: the key is created with the caller's value when
\* absent, its TTL is refreshed when the value is already the caller's.
ReserveStore(r, id) ==
    IF r \notin partitioned /\ kvReservations[id].owner \in {None, r}
    THEN [kvReservations EXCEPT ![id] = [owner |-> r, ttl |-> reservationTimeout]]
    ELSE kvReservations

\* kvClient.RenewReservation(kvKey): refreshes the caller's own lease; fails
\* (no effect) when the caller does not hold the key or cannot reach the store.
RenewStore(r, id) ==
    IF r \notin partitioned /\ kvReservations[id].owner = r
    THEN [kvReservations EXCEPT ![id].ttl = reservationTimeout]
    ELSE kvReservations

\* Variants of tryToReserveKey with a slip in the comparison.
tryToReserveKeyAnyOwner(r, value) ==
    value # None

tryToReserveKeyNilIsMine(r, value) ==
    IF value # None THEN value = r ELSE TRUE

\* tryToReserveKey, after Reserve has returned `value`:
\*   if value != nil { return currOwner == da.instanceId }; return false
tryToReserveKey(r, value) ==
    IF value # None THEN value = r ELSE FALSE

\* setOwnership(id, owner): flips the flag of an existing entry; not-found
\* (logged by the caller) leaves the map alone.
setOwnership(r, id, owner) ==
    IF exist(r, id)
    THEN [deviceMap EXCEPT ![r][id].owned = owner]
    ELSE deviceMap

\* time.Duration(da.reservationTimeout) / 3 * time.Second, in seconds
MonitorPeriod == reservationTimeout \div 3

\* deviceMapLock is held for reading by every caller inside getOwnership
\* (defer RUnlock); Lock() waits for them.
Readers(r) == {t \in Callers : calls[r][t].pc # "idle"}
WriteLockFree(r) == Readers(r) = {}

\* Channels made so far, and callers on their way to make one.
ChnlsMade ==
    LET S[R \in SUBSET Replicas] ==
            IF R = {} THEN 0
            ELSE LET x == CHOOSE x \in R : TRUE IN nextChnl[x] + S[R \ {x}]
    IN S[Replicas]
ChnlsPending == Cardinality({p \in Replicas \X Callers : calls[p[1]][p[2]].pc # "idle"})

\* &ownership{id: id, owned: reservedByMe, chnl: myChnl}
newOwnership(reservedByMe, c) == [owned |-> reservedByMe, chnl |-> c]

\* Variant of abandonMap that drops every entry of the replica.
abandonMapAll(r, id) == [deviceMap EXCEPT ![r] = [d \in DeviceIds |-> NoOwnership]]

\* AbandonDevice on an existing entry: close(o.chnl); delete(da.deviceMap, id).
\* The lease key in the KV store is not touched.
abandonClosed(r, id) == [closed EXCEPT ![r] = @ \cup {deviceMap[r][id].chnl}]
abandonMap(r, id) == [deviceMap EXCEPT ![r][id] = NoOwnership]
abandonStore(r, id) == kvReservations

OwnersOf(id) == {r \in Replicas : deviceMap[r][id].owned}

(***************************************************************************)
(* Ownership: the public calls.                                            *)
(***************************************************************************)
\* OwnedByMe -> getOwnership, up to the map lookup under RLock.  An existing
\* entry answers at once; otherwise the caller goes on to reserve the key,
\* still holding the read lock.
getOwnershipLookup(r, t, id) ==
    /\ calls[r][t].pc = "idle"
    /\ IF exist(r, id)
       THEN /\ last' = [NoCall EXCEPT !.op = "OwnedByMe", !.r = r, !.id = id,
                                      !.owned = deviceMap[r][id].owned,
                                      !.recorded = deviceMap[r][id].owned]
            /\ UNCHANGED calls
       ELSE /\ ChnlsMade + ChnlsPending < MaxChnl
            /\ calls' = [calls EXCEPT ![r][t] =
                            [pc |-> "reserve", id |-> id, value |-> None]]
            /\ last' = NoCall
    /\ UNCHANGED <<deviceMap, nextChnl, closed, monitor, exitChannel, stopped,
                   kvReservations, partitioned, overlap>>

\* getOwnership: `reservedByMe := da.tryToReserveKey(id)`, the KV round trip.
getOwnershipReserve(r, t) ==
    /\ calls[r][t].pc = "reserve"
    /\ calls' = [calls EXCEPT ![r][t].pc = "write",
                              ![r][t].value = ReserveValue(r, calls[r][t].id)]
    /\ kvReservations' = ReserveStore(r, calls[r][t].id)
    /\ last' = NoCall
    /\ UNCHANGED <<deviceMap, nextChnl, closed, monitor, exitChannel, stopped,
                   partitioned, overlap>>

\* getOwnership: make the channel, store the entry (under the read lock only),
\* start the monitoring goroutine, return reservedByMe, RUnlock.
getOwnershipWrite(r, t) ==
    /\ calls[r][t].pc = "write"
    /\ LET id == calls[r][t].id
           c == nextChnl[r] + 1
           reservedByMe == tryToReserveKey(r, calls[r][t].value)
       IN /\ deviceMap' = [deviceMap EXCEPT ![r][id] = newOwnership(reservedByMe, c)]
          /\ nextChnl' = [nextChnl EXCEPT ![r] = c]
          /\ monitor' = [monitor EXCEPT ![r][c] = [NoMonitor EXCEPT !.pc = "start", !.id = id]]
          /\ last' = [NoCall EXCEPT !.op = "OwnedByMe", !.r = r, !.id = id,
                                    !.cold = TRUE, !.value = calls[r][t].value,
                                    !.owned = reservedByMe,
                                    !.recorded = deviceMap'[r][id].owned]
    /\ calls' = [calls EXCEPT ![r][t] = NoCaller]
    /\ UNCHANGED <<closed, exitChannel, stopped, kvReservations, partitioned, overlap>>

\* AbandonDevice(id), under the write lock.
AbandonDevice(r, id) ==
    /\ WriteLockFree(r)
    /\ IF exist(r, id)
       THEN /\ closed' = abandonClosed(r, id)
            /\ deviceMap' = abandonMap(r, id)
            /\ kvReservations' = abandonStore(r, id)
            /\ last' = [NoCall EXCEPT !.op = "AbandonDevice", !.r = r, !.id = id]
       ELSE /\ last' = [NoCall EXCEPT !.op = "AbandonDevice", !.r = r, !.id = id,
                                      !.err = "not-found"]
            /\ UNCHANGED <<closed, deviceMap, kvReservations>>
    /\ UNCHANGED <<nextChnl, monitor, exitChannel, stopped, calls, partitioned, overlap>>

\* Stop: `da.exitChannel <- 1` on a channel of capacity 1 (blocks while full).
Stop(r) ==
    /\ ~stopped[r]
    /\ exitChannel[r] = 0
    /\ exitChannel' = [exitChannel EXCEPT ![r] = 1]
    /\ stopped' = [stopped EXCEPT ![r] = TRUE]
    /\ last' = NoCall
    /\ UNCHANGED <<deviceMap, nextChnl, closed, monitor, calls, kvReservations,
                   partitioned, overlap>>

(***************************************************************************)
(* Ownership: startOwnershipMonitoring(id, chnl), one goroutine per call   *)
(* of getOwnership that found no entry.                                    *)
(***************************************************************************)
\* The goroutine is at the top of its loop: just started, or its select has
\* taken the time.After case.
MonitorDue(r, c) ==
    \/ monitor[r][c].pc = "start"
    \/ monitor[r][c].pc = "select" /\ monitor[r][c].timer = 0

\* `exist && val.owned`, read under RLock at the top of the loop.
MonitorOwned(r, c) ==
    exist(r, monitor[r][c].id) /\ deviceMap[r][monitor[r][c].id].owned

\* RenewReservation returns an error: the store cannot be reached or the key
\* is not the replica's.
RenewFails(r, id) == r \in partitioned \/ kvReservations[id].owner # r

\* The renew branch of a monitor that gives the device up when its renewal
\* fails.
MonitorRenewGivesUp(r, c) ==
    /\ MonitorDue(r, c)
    /\ MonitorOwned(r, c)
    /\ kvReservations' = RenewStore(r, monitor[r][c].id)
    /\ deviceMap' = IF RenewFails(r, monitor[r][c].id)
                    THEN setOwnership(r, monitor[r][c].id, FALSE)
                    ELSE deviceMap
    /\ monitor' = [monitor EXCEPT
           ![r][c].pc = "select",
           ![r][c].timer = MonitorPeriod,
           ![r][c].lost = \E b \in Replicas \ {r} :
                              /\ kvReservations[monitor[r][c].id].owner = b
                              /\ deviceMap[b][monitor[r][c].id].owned]
    /\ last' = NoCall
    /\ UNCHANGED <<nextChnl, closed, exitChannel, stopped, calls,
                   partitioned, overlap>>

\* An iteration on the renew branch: the entry is read as owned and
\* RenewReservation is called; its error is logged and nothing else.  The
\* read and the KV call are one step: no other step both depends on the map
\* and changes the store.
MonitorRenew(r, c) ==
    /\ MonitorDue(r, c)
    /\ MonitorOwned(r, c)
    /\ kvReservations' = RenewStore(r, monitor[r][c].id)
    /\ monitor' = [monitor EXCEPT
           ![r][c].pc = "select",
           ![r][c].timer = MonitorPeriod,
           ![r][c].lost = \E b \in Replicas \ {r} :
                              /\ kvReservations[monitor[r][c].id].owner = b
                              /\ deviceMap[b][monitor[r][c].id].owned]
    /\ last' = NoCall
    /\ UNCHANGED <<deviceMap, nextChnl, closed, exitChannel, stopped, calls,
                   partitioned, overlap>>

\* An iteration on the retry branch, up to the argument of setOwnership:
\* the entry is absent or not owned and da.tryToReserveKey(id) is evaluated.
MonitorRetry(r, c) ==
    /\ MonitorDue(r, c)
    /\ ~MonitorOwned(r, c)
    /\ monitor' = [monitor EXCEPT
           ![r][c].pc = "set",
           ![r][c].timer = 0,
           ![r][c].lost = FALSE,
           ![r][c].value = ReserveValue(r, monitor[r][c].id),
           ![r][c].res = tryToReserveKey(r, ReserveValue(r, monitor[r][c].id))]
    /\ kvReservations' = ReserveStore(r, monitor[r][c].id)
    /\ last' = NoCall
    /\ UNCHANGED <<deviceMap, nextChnl, closed, exitChannel, stopped, calls,
                   partitioned, overlap>>

\* op = "retry": da.setOwnership(id, ...) under the write lock.
MonitorSet(r, c) ==
    /\ monitor[r][c].pc = "set"
    /\ WriteLockFree(r)
    /\ deviceMap' = setOwnership(r, monitor[r][c].id, monitor[r][c].res)
    /\ monitor' = [monitor EXCEPT ![r][c].pc = "select",
                                  ![r][c].res = FALSE,
                                  ![r][c].value = None,
                                  ![r][c].timer = MonitorPeriod]
    /\ last' = NoCall
    /\ UNCHANGED <<nextChnl, closed, exitChannel, stopped, calls, kvReservations,
                   partitioned, overlap>>

\* select, case <-da.exitChannel: receives the buffered value and leaves.
MonitorExit(r, c) ==
    /\ monitor[r][c].pc = "select"
    /\ exitChannel[r] = 1
    /\ exitChannel' = [exitChannel EXCEPT ![r] = 0]
    /\ monitor' = [monitor EXCEPT ![r][c].pc = "done", ![r][c].timer = 0,
                                  ![r][c].lost = FALSE]
    /\ last' = NoCall
    /\ UNCHANGED <<deviceMap, nextChnl, closed, stopped, calls, kvReservations,
                   partitioned, overlap>>

\* select, case <-chnl: the channel was closed by AbandonDevice.
MonitorClosed(r, c) ==
    /\ monitor[r][c].pc = "select"
    /\ c \in closed[r]
    /\ monitor' = [monitor EXCEPT ![r][c].pc = "done", ![r][c].timer = 0,
                                  ![r][c].lost = FALSE]
    /\ last' = NoCall
    /\ UNCHANGED <<deviceMap, nextChnl, closed, exitChannel, stopped, calls,
                   kvReservations, partitioned, overlap>>

(***************************************************************************)
(* Environment: time and the KV store's reachability.                      *)
(***************************************************************************)
\* A goroutine that can run does so before the clock moves: only the timers
\* of the select statements and the leases take time.
Busy(r) ==
    \/ Readers(r) # {}
    \/ \E c \in Chnls :
           \/ monitor[r][c].pc \in {"start", "set"}
           \/ /\ monitor[r][c].pc = "select"
              /\ \/ monitor[r][c].timer = 0
                 \/ c \in closed[r]
                 \/ exitChannel[r] = 1

\* One second passes: running timers count down, leases age and expire.
Tick ==
    /\ \A r \in Replicas : ~Busy(r)
    /\ monitor' = [r \in Replicas |-> [c \in Chnls |->
                      IF monitor[r][c].pc = "select"
                      THEN [monitor[r][c] EXCEPT !.timer = @ - 1]
                      ELSE monitor[r][c]]]
    /\ kvReservations' = [id \in DeviceIds |->
                      IF kvReservations[id].ttl <= 1 THEN NoLease
                      ELSE [kvReservations[id] EXCEPT !.ttl = @ - 1]]
    /\ overlap' = [id \in DeviceIds |->
                      IF Cardinality(OwnersOf(id)) >= 2
                      THEN IF overlap[id] > reservationTimeout
                           THEN overlap[id] ELSE overlap[id] + 1
                      ELSE 0]
    /\ last' = NoCall
    /\ UNCHANGED <<deviceMap, nextChnl, closed, exitChannel, stopped, calls, partitioned>>

\* The replica loses its connection to the KV store: its calls fail.
Partition(r) ==
    /\ r \notin partitioned
    /\ partitioned' = partitioned \cup {r}
    /\ last' = NoCall
    /\ UNCHANGED <<deviceMap, nextChnl, closed, monitor, exitChannel, stopped, calls,
                   kvReservations, overlap>>

\* The connection comes back.
Heal(r) ==
    /\ r \in partitioned
    /\ partitioned' = partitioned \ {r}
    /\ last' = NoCall
    /\ UNCHANGED <<deviceMap, nextChnl, closed, monitor, exitChannel, stopped, calls,
                   kvReservations, overlap>>

(***************************************************************************)
(* Device manager: data and helpers.                                       *)
(***************************************************************************)
\* The replica whose device manager is modelled (DeviceManager.coreInstanceId).
coreInstanceId == "A"

\* voltha.Device, cut down to the fields the manager reads: Root, ParentId,
\* AdminState, SerialNumber, ProxyAddress.OnuId, ParentPortNo and the device
\* ids of Ports[*].Peers[*] in order.
NoDevice == [present |-> FALSE, root |-> FALSE, parentId |-> "", adminState |-> "",
             serial |-> "", onuId |-> 0, parentPortNo |-> 0, peers |-> <<>>]

\* One activation record of a device-manager function: where it is (pc), its
\* deviceId argument, and the locals some functions keep (loop index and
\* list, the arguments of child detection, the reconciled count, the err and
\* all-succeeded variables of a loop over children), with the children on
\* which the loop has called the agent (tried) and those that failed.
Frame(fn, pc, id) == [fn |-> fn, pc |-> pc, id |-> id, i |-> 0, kids |-> <<>>,
                      serial |-> "", onuId |-> 0, port |-> 0, child |-> "", n |-> 0,
                      err |-> "", all |-> TRUE, tried |-> <<>>, failed |-> {}]

\* A returned value: the error is nil (ok), the error code otherwise, and the
\* device handed back where the function returns one.
NoRet == [ok |-> FALSE, err |-> "", dev |-> NoDevice]
Ok(dev) == [ok |-> TRUE, err |-> "", dev |-> dev]
Err(code) == [ok |-> FALSE, err |-> code, dev |-> NoDevice]

\* A Go error value (its code, "" for nil) as a result: nil is success.
ErrorOf(e) == IF e = "" THEN Ok(NoDevice) ELSE Err(e)

Top(t) == stack[t][Len(stack[t])]
Rest(t) == SubSeq(stack[t], 1, Len(stack[t]) - 1)
At(t, fn, pc) == stack[t] # <<>> /\ Top(t).fn = fn /\ Top(t).pc = pc

\* No request has just been answered.
NoLast == [t |-> None, frame |-> Frame("", "", ""), ret |-> NoRet]

\* `return r`: the frame is popped and the caller finds r; the return of a
\* request's own function is its answer.
Popped(t, f, r) ==
    /\ stack' = [stack EXCEPT ![t] = Rest(t)]
    /\ ret' = [ret EXCEPT ![t] = r]
    /\ dmLast' = IF Len(stack[t]) = 1
                 THEN [t |-> t, frame |-> f, ret |-> r]
                 ELSE NoLast

ReturnFrom(t, f, r) == Popped(t, f, r) /\ UNCHANGED extVars

Return(t, r) == ReturnFrom(t, Top(t), r)

\* The running function moves to frame f and calls the functions in cs.
Goto(t, f, cs) ==
    /\ stack' = [stack EXCEPT ![t] = Rest(t) \o <<f>> \o cs]
    /\ ret' = [ret EXCEPT ![t] = NoRet]
    /\ dmLast' = NoLast
    /\ UNCHANGED extVars

\* A request enters the manager with the frames fs.
Entered(t, fs) ==
    /\ stack[t] = <<>>
    /\ stack' = [stack EXCEPT ![t] = fs]
    /\ ret' = [ret EXCEPT ![t] = NoRet]
    /\ dmLast' = NoLast

Enter(t, fs) == Entered(t, fs) /\ UNCHANGED extVars

\* uint32(x) for a non-negative int64: x modulo the number of uint32 values.
\* That number, 2^32 in the source, is scaled down to Uint32Values.
Uint32(x) == x % Uint32Values

\* The activation records a call pushes: the callee, and the callees it calls
\* before it touches shared state.
CallGetDeviceAgent(id) == <<Frame("getDeviceAgent", "lookup", id)>>
CallLoadDevice(id) == <<Frame("loadDevice", "check", id)>>
CallLoad(id) == <<Frame("load", "loaded", id)>> \o CallLoadDevice(id)
CallGetDevice(id) == <<Frame("GetDevice", "got", id)>> \o CallGetDeviceAgent(id)
CallGetChildDevice(parent, serial, onuId, port) ==
    <<[Frame("GetChildDevice", "parent", parent) EXCEPT
           !.serial = serial, !.onuId = onuId, !.port = port]>>
        \o CallGetDevice(parent)

\* IsDeviceInCache(id): `_, exist := dMgr.deviceAgents[id]` under the lock.
IsDeviceInCache(id) == deviceAgents[id] # "none"

\* addDeviceAgentToMap(agent), for an agent that has been started: stored only
\* when the table has no agent for the id; an agent that is not stored stays
\* started and is referenced by nobody.
addDeviceAgentToMap(id) ==
    IF ~IsDeviceInCache(id)
    THEN /\ deviceAgents' = [deviceAgents EXCEPT ![id] = "started"]
         /\ UNCHANGED strays
    ELSE /\ strays' = [strays EXCEPT ![id] = @ + 1]
         /\ UNCHANGED deviceAgents

\* agent.getDevice(): the agent's device record, or an error when there is none.
getDevice(id) == IF devices[id].present THEN Ok(devices[id]) ELSE Err("not-found")

\* getAllChildDeviceIds(parentDevice): the peers of all its ports, in order.
getAllChildDeviceIds(parentDevice) == parentDevice.peers

\* GetChildDevice's test of one searchDevice.
foundOnuId(searchDevice, onuId, parentPortNo) ==
    /\ searchDevice.onuId = Uint32(onuId)
    /\ searchDevice.parentPortNo = Uint32(parentPortNo)

foundSerialNumber(searchDevice, serialNumber) ==
    searchDevice.serial = serialNumber

foundEither(searchDevice, serialNumber, onuId, parentPortNo) ==
    foundOnuId(searchDevice, onuId, parentPortNo)
        \/ foundSerialNumber(searchDevice, serialNumber)

found(searchDevice, serialNumber, onuId, parentPortNo) ==
    IF onuId > 0 /\ serialNumber # ""
    THEN foundOnuId(searchDevice, onuId, parentPortNo)
             /\ foundSerialNumber(searchDevice, serialNumber)
    ELSE foundOnuId(searchDevice, onuId, parentPortNo)
             \/ foundSerialNumber(searchDevice, serialNumber)

\* Requests inside child detection that have not yet taken their fresh id.
FreshPending ==
    Cardinality({t \in Callers :
        /\ stack[t] # <<>>
        /\ stack[t][1].fn = "childDeviceDetected"
        /\ stack[t][1].pc \in {"parent", "child"}})

(***************************************************************************)
(* Device manager: lookup-or-load.                                         *)
(***************************************************************************)
\* GetDevice(id), request entry.
GetDevice(t, id) ==
    /\ Enter(t, CallGetDevice(id))
    /\ UNCHANGED <<devices, deviceAgents, strays, hydrations, created>>
    /\ UNCHANGED <<ownVars, deleted>>

\* GetDevice after getDeviceAgent: agent.getDevice(), or NotFound for nil.
GetDeviceGot(t) ==
    /\ At(t, "GetDevice", "got")
    /\ Return(t, IF ret[t].ok THEN getDevice(Top(t).id) ELSE Err("not-found"))
    /\ UNCHANGED <<devices, deviceAgents, strays, hydrations, created>>
    /\ UNCHANGED <<ownVars, deleted>>

\* getDeviceAgent: the lookup under the lock; a miss unlocks and calls load.
getDeviceAgentLookup(t) ==
    /\ At(t, "getDeviceAgent", "lookup")
    /\ IF IsDeviceInCache(Top(t).id)
       THEN Return(t, Ok(NoDevice))
       ELSE Goto(t, [Top(t) EXCEPT !.pc = "loaded"], CallLoad(Top(t).id))
    /\ UNCHANGED <<devices, deviceAgents, strays, hydrations, created>>
    /\ UNCHANGED <<ownVars, deleted>>

\* getDeviceAgent after load, looking again until the agent is in the table.
getDeviceAgentRetry(t) ==
    /\ At(t, "getDeviceAgent", "loaded")
    /\ IF IsDeviceInCache(Top(t).id)
       THEN Return(t, Ok(NoDevice))
       ELSE Goto(t, Top(t), CallLoad(Top(t).id))
    /\ UNCHANGED <<devices, deviceAgents, strays, hydrations, created>>
    /\ UNCHANGED <<ownVars, deleted>>

\* getDeviceAgent after load: on success the table is looked up again.
getDeviceAgentLoaded(t) ==
    /\ At(t, "getDeviceAgent", "loaded")
    /\ Return(t, IF ret[t].ok /\ IsDeviceInCache(Top(t).id)
                 THEN Ok(NoDevice) ELSE Err("nil"))
    /\ UNCHANGED <<devices, deviceAgents, strays, hydrations, created>>
    /\ UNCHANGED <<ownVars, deleted>>

\* load after loadDevice: the error is returned; otherwise the device is read,
\* a PREPROVISIONED or DELETED device ends the load, a root device loads its
\* children (loadRootDeviceParentAndChildren), a child returns load(ParentId).
loadLoaded(t) ==
    /\ At(t, "load", "loaded")
    /\ LET device == getDevice(Top(t).id)
           childDeviceIds == getAllChildDeviceIds(device.dev)
       IN IF ~ret[t].ok THEN Return(t, Err(ret[t].err))
          ELSE IF ~device.ok THEN Return(t, device)
          ELSE IF device.dev.adminState \in {"PREPROVISIONED", "DELETED"}
               THEN Return(t, Ok(NoDevice))
          ELSE IF device.dev.root
               THEN IF childDeviceIds = <<>>
                    THEN Return(t, Ok(NoDevice))
                    ELSE Goto(t, [Top(t) EXCEPT !.pc = "children", !.i = 1,
                                                !.kids = childDeviceIds],
                              CallLoadDevice(childDeviceIds[1]))
          ELSE IF device.dev.parentId # ""
               THEN Goto(t, Frame("load", "loaded", device.dev.parentId),
                         CallLoadDevice(device.dev.parentId))
               ELSE Return(t, Ok(NoDevice))
    /\ UNCHANGED <<devices, deviceAgents, strays, hydrations, created>>
    /\ UNCHANGED <<ownVars, deleted>>

\* loadRootDeviceParentAndChildren after loadDevice(childDeviceId): the first
\* error is returned, otherwise the loop goes on to the next child.
loadChildren(t) ==
    /\ At(t, "load", "children")
    /\ LET f == Top(t)
       IN IF ~ret[t].ok THEN Return(t, Err(ret[t].err))
          ELSE IF f.i < Len(f.kids)
               THEN Goto(t, [f EXCEPT !.i = f.i + 1], CallLoadDevice(f.kids[f.i + 1]))
               ELSE Return(t, Ok(NoDevice))
    /\ UNCHANGED <<devices, deviceAgents, strays, hydrations, created>>
    /\ UNCHANGED <<ownVars, deleted>>

\* loadDevice: `if !dMgr.IsDeviceInCache(deviceId)`; a miss makes a new agent,
\* a hit goes straight to getDeviceAgent.
loadDeviceCheck(t) ==
    /\ At(t, "loadDevice", "check")
    /\ IF IsDeviceInCache(Top(t).id)
       THEN Goto(t, [Top(t) EXCEPT !.pc = "got"], CallGetDeviceAgent(Top(t).id))
       ELSE Goto(t, [Top(t) EXCEPT !.pc = "start"], <<>>)
    /\ UNCHANGED <<devices, deviceAgents, strays, hydrations, created>>
    /\ UNCHANGED <<ownVars, deleted>>

\* loadDevice: agent.start(nil, true) hydrates the new agent from the KV
\* store; with no record there it fails, the agent is stopped and the error
\* returned.
loadDeviceStart(t) ==
    /\ At(t, "loadDevice", "start")
    /\ IF devices[Top(t).id].present
       THEN /\ hydrations' = [hydrations EXCEPT ![Top(t).id] = @ + 1]
            /\ Goto(t, [Top(t) EXCEPT !.pc = "add"], <<>>)
       ELSE /\ Return(t, Err("not-found"))
            /\ UNCHANGED hydrations
    /\ UNCHANGED <<devices, deviceAgents, strays, created>>
    /\ UNCHANGED <<ownVars, deleted>>

\* loadDevice: dMgr.addDeviceAgentToMap(agent), then getDeviceAgent(deviceId).
loadDeviceAdd(t) ==
    /\ At(t, "loadDevice", "add")
    /\ addDeviceAgentToMap(Top(t).id)
    /\ Goto(t, [Top(t) EXCEPT !.pc = "got"], CallGetDeviceAgent(Top(t).id))
    /\ UNCHANGED <<devices, hydrations, created>>
    /\ UNCHANGED <<ownVars, deleted>>

\* loadDevice after getDeviceAgent: the agent, or NotFound for nil.
loadDeviceGot(t) ==
    /\ At(t, "loadDevice", "got")
    /\ Return(t, IF ret[t].ok THEN Ok(NoDevice) ELSE Err("not-found"))
    /\ UNCHANGED <<devices, deviceAgents, strays, hydrations, created>>
    /\ UNCHANGED <<ownVars, deleted>>

(***************************************************************************)
(* Device manager: listing and reconciliation.                             *)
(***************************************************************************)
\* clusterDataProxy.List("/devices"): the records in the store, in id order.
ListOrder == <<"d1", "d2">> \o FreshIds
List == SelectSeq(ListOrder, LAMBDA id : devices[id].present)

\* ListDevices, request entry: the list is read from the store.
ListDevices(t) ==
    /\ Enter(t, <<[Frame("ListDevices", "check", "") EXCEPT !.kids = List, !.i = 1]>>)
    /\ UNCHANGED <<devices, deviceAgents, strays, hydrations, created>>
    /\ UNCHANGED <<ownVars, deleted>>

\* ListDevices, per listed device: `if !dMgr.IsDeviceInCache(...)`; after the
\* last device the list is returned.
ListDevicesCheck(t) ==
    /\ At(t, "ListDevices", "check")
    /\ LET f == Top(t)
       IN IF f.i > Len(f.kids) THEN Return(t, Ok(NoDevice))
          ELSE IF IsDeviceInCache(f.kids[f.i])
               THEN Goto(t, [f EXCEPT !.i = f.i + 1], <<>>)
               ELSE Goto(t, [f EXCEPT !.pc = "start"], <<>>)
    /\ UNCHANGED <<devices, deviceAgents, strays, hydrations, created>>
    /\ UNCHANGED <<ownVars, deleted>>

\* ListDevices: agent.start(nil, true); a failure stops the agent and the loop
\* goes on.
ListDevicesStart(t) ==
    /\ At(t, "ListDevices", "start")
    /\ LET f == Top(t)
       IN IF devices[f.kids[f.i]].present
          THEN /\ hydrations' = [hydrations EXCEPT ![f.kids[f.i]] = @ + 1]
               /\ Goto(t, [f EXCEPT !.pc = "add"], <<>>)
          ELSE /\ Goto(t, [f EXCEPT !.pc = "check", !.i = f.i + 1], <<>>)
               /\ UNCHANGED hydrations
    /\ UNCHANGED <<devices, deviceAgents, strays, created>>
    /\ UNCHANGED <<ownVars, deleted>>

\* ListDevices: dMgr.addDeviceAgentToMap(agent).
ListDevicesAdd(t) ==
    /\ At(t, "ListDevices", "add")
    /\ addDeviceAgentToMap(Top(t).kids[Top(t).i])
    /\ Goto(t, [Top(t) EXCEPT !.pc = "check", !.i = Top(t).i + 1], <<>>)
    /\ UNCHANGED <<devices, hydrations, created>>
    /\ UNCHANGED <<ownVars, deleted>>

\* The id lists handed to ReconcileDevices.
ReconcileIds == {<<"d1">>, <<"d2", "d1">>}

\* ReconcileDevices(ids), request entry.
ReconcileDevices(t, ids) ==
    /\ Enter(t, <<[Frame("ReconcileDevices", "check", "") EXCEPT !.kids = ids, !.i = 1]>>)
    /\ UNCHANGED <<devices, deviceAgents, strays, hydrations, created>>
    /\ UNCHANGED <<ownVars, deleted>>

\* ReconcileDevices, per id: an id in the table counts as reconciled; after
\* the last id DataLoss is sent when fewer ids were reconciled than given.
ReconcileDevicesCheck(t) ==
    /\ At(t, "ReconcileDevices", "check")
    /\ LET f == Top(t)
       IN IF f.i > Len(f.kids)
          THEN Return(t, IF f.n = Len(f.kids) THEN Ok(NoDevice) ELSE Err("data-loss"))
          ELSE IF IsDeviceInCache(f.kids[f.i])
               THEN Goto(t, [f EXCEPT !.i = f.i + 1, !.n = f.n + 1], <<>>)
               ELSE Goto(t, [f EXCEPT !.pc = "start"], <<>>)
    /\ UNCHANGED <<devices, deviceAgents, strays, hydrations, created>>
    /\ UNCHANGED <<ownVars, deleted>>

\* ReconcileDevices: agent.start(nil, true); a failure stops the agent.
ReconcileDevicesStart(t) ==
    /\ At(t, "ReconcileDevices", "start")
    /\ LET f == Top(t)
       IN IF devices[f.kids[f.i]].present
          THEN /\ hydrations' = [hydrations EXCEPT ![f.kids[f.i]] = @ + 1]
               /\ Goto(t, [f EXCEPT !.pc = "add"], <<>>)
          ELSE /\ Goto(t, [f EXCEPT !.pc = "check", !.i = f.i + 1], <<>>)
               /\ UNCHANGED hydrations
    /\ UNCHANGED <<devices, deviceAgents, strays, created>>
    /\ UNCHANGED <<ownVars, deleted>>

\* ReconcileDevices: dMgr.addDeviceAgentToMap(agent); reconciled += 1.
ReconcileDevicesAdd(t) ==
    /\ At(t, "ReconcileDevices", "add")
    /\ addDeviceAgentToMap(Top(t).kids[Top(t).i])
    /\ Goto(t, [Top(t) EXCEPT !.pc = "check", !.i = Top(t).i + 1, !.n = Top(t).n + 1], <<>>)
    /\ UNCHANGED <<devices, hydrations, created>>
    /\ UNCHANGED <<ownVars, deleted>>

(***************************************************************************)
(* Device manager: creation, child detection, ports.                       *)
(***************************************************************************)
\* newDeviceAgent on a device without an id: the next fresh id.
newDeviceId == FreshIds[created + 1]

\* createDevice: device.Root = true, newDeviceAgent, addDeviceAgentToMap.
createDevice(t) ==
    /\ created + FreshPending < Len(FreshIds)
    /\ Enter(t, <<[Frame("createDevice", "start", newDeviceId) EXCEPT !.child = newDeviceId]>>)
    /\ created' = created + 1
    /\ deviceAgents' = [deviceAgents EXCEPT ![newDeviceId] =
                           IF @ = "none" THEN "new" ELSE @]
    /\ UNCHANGED <<devices, strays, hydrations>>
    /\ UNCHANGED <<ownVars, deleted>>

\* createDevice: agent.start(ctx, false) persists the device; the response is
\* agent.lastData.
createDeviceStart(t) ==
    /\ At(t, "createDevice", "start")
    /\ devices' = [devices EXCEPT ![Top(t).id] =
                      [NoDevice EXCEPT !.present = TRUE, !.root = TRUE,
                                       !.adminState = "PREPROVISIONED"]]
    /\ deviceAgents' = [deviceAgents EXCEPT ![Top(t).id] = "started"]
    /\ Return(t, Ok(devices'[Top(t).id]))
    /\ UNCHANGED <<strays, hydrations, created>>
    /\ UNCHANGED <<ownVars, deleted>>

\* What the adapter reports for a detected ONU: serial number and onu id.
Detections == {[serial |-> "S1", onuId |-> 1], [serial |-> "S2", onuId |-> 2]}
ParentPortNos == {1}

\* childDeviceDetected, request entry: dMgr.GetDevice(parentDeviceId).
childDeviceDetected(t, parentDeviceId, parentPortNo, serialNumber, onuId) ==
    /\ created + FreshPending < Len(FreshIds)
    /\ Enter(t, <<[Frame("childDeviceDetected", "parent", parentDeviceId) EXCEPT
                      !.serial = serialNumber, !.onuId = onuId, !.port = parentPortNo]>>
                    \o CallGetDevice(parentDeviceId))
    /\ UNCHANGED <<devices, deviceAgents, strays, hydrations, created>>
    /\ UNCHANGED <<ownVars, deleted>>

\* childDeviceDetected after GetDevice(parent): NotFound, or on to
\* dMgr.GetChildDevice(parentDeviceId, serialNumber, onuId, parentPortNo).
childDeviceDetectedParent(t) ==
    /\ At(t, "childDeviceDetected", "parent")
    /\ LET f == Top(t)
       IN IF ~ret[t].ok THEN Return(t, Err("not-found"))
          ELSE Goto(t, [f EXCEPT !.pc = "child"],
                    CallGetChildDevice(f.id, f.serial, f.onuId, f.port))
    /\ UNCHANGED <<devices, deviceAgents, strays, hydrations, created>>
    /\ UNCHANGED <<ownVars, deleted>>

\* childDeviceDetected after GetChildDevice: a child found is AlreadyExists;
\* otherwise newDeviceAgent(childDevice) and addDeviceAgentToMap(agent).
childDeviceDetectedChild(t) ==
    /\ At(t, "childDeviceDetected", "child")
    /\ IF ret[t].ok
       THEN /\ Return(t, Err("already-exists"))
            /\ UNCHANGED <<deviceAgents, created>>
       ELSE /\ Goto(t, [Top(t) EXCEPT !.pc = "start", !.child = newDeviceId], <<>>)
            /\ created' = created + 1
            /\ deviceAgents' = [deviceAgents EXCEPT ![newDeviceId] =
                                   IF @ = "none" THEN "new" ELSE @]
    /\ UNCHANGED <<devices, strays, hydrations>>
    /\ UNCHANGED <<ownVars, deleted>>

\* childDeviceDetected: agent.start(nil, false) persists the child device.
childDeviceDetectedStart(t) ==
    /\ At(t, "childDeviceDetected", "start")
    /\ LET f == Top(t)
       IN /\ devices' = [devices EXCEPT ![f.child] =
                 [NoDevice EXCEPT !.present = TRUE, !.root = FALSE,
                                  !.parentId = f.id,
                                  !.adminState = "PREPROVISIONED",
                                  !.serial = f.serial,
                                  !.onuId = Uint32(f.onuId),
                                  !.parentPortNo = Uint32(f.port)]]
          /\ deviceAgents' = [deviceAgents EXCEPT ![f.child] = "started"]
          /\ Goto(t, [f EXCEPT !.pc = "own"], <<>>)
    /\ UNCHANGED <<strays, hydrations, created>>
    /\ UNCHANGED <<ownVars, deleted>>

\* childDeviceDetected: dMgr.core.deviceOwnership.OwnedByMe(agent.deviceId),
\* the caller entering getOwnership.
childDeviceDetectedOwn(t) ==
    /\ At(t, "childDeviceDetected", "own")
    /\ getOwnershipLookup(coreInstanceId, t, Top(t).child)
    /\ Goto(t, [Top(t) EXCEPT !.pc = "owned"], <<>>)
    /\ UNCHANGED <<devices, deviceAgents, strays, hydrations, created, deleted>>

\* childDeviceDetected after OwnedByMe has returned:
\* dMgr.getDeviceAgent(agent.deviceId).
childDeviceDetectedOwned(t) ==
    /\ At(t, "childDeviceDetected", "owned")
    /\ calls[coreInstanceId][t].pc = "idle"
    /\ Goto(t, [Top(t) EXCEPT !.pc = "enable"], CallGetDeviceAgent(Top(t).child))
    /\ UNCHANGED <<devices, deviceAgents, strays, hydrations, created>>
    /\ UNCHANGED <<ownVars, deleted>>

\* childDeviceDetected: the enable and the bus publication are handed to
\* goroutines of their own, then `return nil`.
childDeviceDetectedEnable(t) ==
    /\ At(t, "childDeviceDetected", "enable")
    /\ Return(t, Ok(NoDevice))
    /\ UNCHANGED <<devices, deviceAgents, strays, hydrations, created>>
    /\ UNCHANGED <<ownVars, deleted>>

\* GetChildDevice(parentDeviceId, serialNumber, onuId, parentPortNo), called
\* for a request of an adapter: dMgr.GetDevice(parentDeviceId).
GetChildDevice(t, parentDeviceId, serialNumber, onuId, parentPortNo) ==
    /\ Enter(t, CallGetChildDevice(parentDeviceId, serialNumber, onuId, parentPortNo))
    /\ UNCHANGED <<devices, deviceAgents, strays, hydrations, created>>
    /\ UNCHANGED <<ownVars, deleted>>

\* GetChildDevice after GetDevice(parentDeviceId): Aborted on an error,
\* NotFound for a parent without children, else the loop over the children.
GetChildDeviceParent(t) ==
    /\ At(t, "GetChildDevice", "parent")
    /\ LET f == Top(t)
           childDeviceIds == getAllChildDeviceIds(ret[t].dev)
       IN IF ~ret[t].ok THEN Return(t, Err("aborted"))
          ELSE IF Len(childDeviceIds) = 0 THEN Return(t, Err("not-found"))
          ELSE Goto(t, [f EXCEPT !.pc = "child", !.kids = childDeviceIds, !.i = 1],
                    CallGetDevice(childDeviceIds[1]))
    /\ UNCHANGED <<devices, deviceAgents, strays, hydrations, created>>
    /\ UNCHANGED <<ownVars, deleted>>

\* GetChildDevice after GetDevice(childDeviceId): the first child found is
\* returned; NotFound after the last one.
GetChildDeviceChild(t) ==
    /\ At(t, "GetChildDevice", "child")
    /\ LET f == Top(t)
       IN IF ret[t].ok /\ found(ret[t].dev, f.serial, f.onuId, f.port)
          THEN Return(t, Ok(ret[t].dev))
          ELSE IF f.i < Len(f.kids)
               THEN Goto(t, [f EXCEPT !.i = f.i + 1], CallGetDevice(f.kids[f.i + 1]))
               ELSE Return(t, Err("not-found"))
    /\ UNCHANGED <<devices, deviceAgents, strays, hydrations, created>>
    /\ UNCHANGED <<ownVars, deleted>>

\* voltha.Device_ProxyAddress as a value: the parent's device id and the onu
\* id (device type and channel id are the same for every child here).
ProxyAddress(device) == [deviceId |-> device.parentId, onuId |-> device.onuId]

\* The proxy addresses as objects (what a *Device_ProxyAddress points to): the
\* one a stored device record holds, named by the device id, one built by the
\* caller of a request, and one inside a fresh copy of a device.
RequestObject == "request"
CopyObject == "copy"

\* The objects agent.getDevice() may hand out as searchDevice.ProxyAddress:
\* the stored one, or that of a copy made for this call.
ProxyObjects(id) == {id, CopyObject}

\* `searchDevice.ProxyAddress == proxyAddress`: the two pointers are the same
\* object, and no two calls share the object of a copy.
SamePointer(searchObject, requestObject) ==
    searchObject = requestObject /\ searchObject # CopyObject

\* GetChildDeviceWithProxyAddress(proxyAddress), request entry:
\* dMgr.GetDevice(proxyAddress.DeviceId).  The argument is an object holding
\* the address.
GetChildDeviceWithProxyAddress(t, proxyAddress, object) ==
    /\ object \in DeviceIds =>
           devices[object].present /\ ProxyAddress(devices[object]) = proxyAddress
    /\ Enter(t, <<[Frame("GetChildDeviceWithProxyAddress", "parent",
                         proxyAddress.deviceId) EXCEPT
                       !.onuId = proxyAddress.onuId, !.child = object]>>
                    \o CallGetDevice(proxyAddress.deviceId))
    /\ UNCHANGED <<devices, deviceAgents, strays, hydrations, created>>
    /\ UNCHANGED <<ownVars, deleted>>

\* GetChildDeviceWithProxyAddress after GetDevice(proxyAddress.DeviceId):
\* Aborted on its error, NotFound for no children, else the loop is entered.
GetChildDeviceWithProxyAddressParent(t) ==
    /\ At(t, "GetChildDeviceWithProxyAddress", "parent")
    /\ LET f == Top(t)
           childDeviceIds == getAllChildDeviceIds(ret[t].dev)
       IN IF ~ret[t].ok THEN Return(t, Err("aborted"))
          ELSE IF Len(childDeviceIds) = 0 THEN Return(t, Err("not-found"))
          ELSE Goto(t, [f EXCEPT !.pc = "child", !.kids = childDeviceIds, !.i = 1],
                    CallGetDevice(childDeviceIds[1]))
    /\ UNCHANGED <<devices, deviceAgents, strays, hydrations, created>>
    /\ UNCHANGED <<ownVars, deleted>>

\* GetChildDeviceWithProxyAddress after GetDevice(childDeviceId): the first
\* child whose ProxyAddress is the request's is returned; NotFound after the
\* last one.
GetChildDeviceWithProxyAddressChild(t) ==
    /\ At(t, "GetChildDeviceWithProxyAddress", "child")
    /\ LET f == Top(t)
       IN \E searchObject \in ProxyObjects(f.kids[f.i]) :
             IF ret[t].ok /\ SamePointer(searchObject, f.child)
             THEN Return(t, Ok(ret[t].dev))
             ELSE IF f.i < Len(f.kids)
                  THEN Goto(t, [f EXCEPT !.i = f.i + 1], CallGetDevice(f.kids[f.i + 1]))
                  ELSE Return(t, Err("not-found"))
    /\ UNCHANGED <<devices, deviceAgents, strays, hydrations, created>>
    /\ UNCHANGED <<ownVars, deleted>>

\* addPort(deviceId, port), request entry, for the first port of a child
\* device, whose one peer is the child's parent.
addPort(t, deviceId) ==
    /\ devices[deviceId].present /\ ~devices[deviceId].root
    /\ devices[deviceId].peers = <<>>
    /\ Enter(t, <<Frame("addPort", "agent", deviceId)>> \o CallGetDeviceAgent(deviceId))
    /\ UNCHANGED <<devices, deviceAgents, strays, hydrations, created>>
    /\ UNCHANGED <<ownVars, deleted>>

\* addPort after getDeviceAgent(deviceId): NotFound for nil; else
\* agent.addPort(port) and getDeviceAgent(peerPort.DeviceId).
addPortAgent(t) ==
    /\ At(t, "addPort", "agent")
    /\ LET id == Top(t).id
           peer == devices[id].parentId
       IN IF ~ret[t].ok
          THEN /\ Return(t, Err("not-found"))
               /\ UNCHANGED devices
          ELSE /\ devices' = [devices EXCEPT ![id].peers = Append(@, peer)]
               /\ Goto(t, [Top(t) EXCEPT !.pc = "peer", !.child = peer],
                       CallGetDeviceAgent(peer))
    /\ UNCHANGED <<deviceAgents, strays, hydrations, created>>
    /\ UNCHANGED <<ownVars, deleted>>

\* addPort after getDeviceAgent(peer): agent.addPeerPort(meAsPeer) when the
\* peer's agent is there; `return nil`.
addPortPeer(t) ==
    /\ At(t, "addPort", "peer")
    /\ devices' = IF ret[t].ok
                  THEN [devices EXCEPT ![Top(t).child].peers = Append(@, Top(t).id)]
                  ELSE devices
    /\ Return(t, Ok(NoDevice))
    /\ UNCHANGED <<deviceAgents, strays, hydrations, created>>
    /\ UNCHANGED <<ownVars, deleted>>

(***************************************************************************)
(* Device manager: lifecycle requests.                                     *)
(***************************************************************************)
\* The answers of the adapter to a forwarded operation: done, or failed.
AdapterAnswers == BOOLEAN

\* enableDevice(id), request entry: dMgr.getDeviceAgent(id.Id).
enableDevice(t, id) ==
    /\ Enter(t, <<Frame("enableDevice", "agent", id)>> \o CallGetDeviceAgent(id))
    /\ UNCHANGED <<devices, deviceAgents, strays, hydrations, created>>
    /\ UNCHANGED <<ownVars, deleted>>

\* enableDevice after getDeviceAgent: for a nil agent res stays nil, and nil
\* is the response; else the result of agent.enableDevice(ctx) is.
enableDeviceAgent(t) ==
    /\ At(t, "enableDevice", "agent")
    /\ LET id == Top(t).id
       IN IF ~ret[t].ok
          THEN /\ Return(t, ErrorOf(""))
               /\ UNCHANGED devices
          ELSE \E answer \in AdapterAnswers :
                  IF answer /\ devices[id].present
                  THEN /\ devices' = [devices EXCEPT ![id].adminState = "ENABLED"]
                       /\ Return(t, Ok(NoDevice))
                  ELSE /\ Return(t, Err("failed"))
                       /\ UNCHANGED devices
    /\ UNCHANGED <<deviceAgents, strays, hydrations, created>>
    /\ UNCHANGED <<ownVars, deleted>>

\* disableDevice(id), request entry: dMgr.getDeviceAgent(id.Id).
disableDevice(t, id) ==
    /\ Enter(t, <<Frame("disableDevice", "agent", id)>> \o CallGetDeviceAgent(id))
    /\ UNCHANGED <<devices, deviceAgents, strays, hydrations, created>>
    /\ UNCHANGED <<ownVars, deleted>>

\* disableDevice after getDeviceAgent: NotFound for a nil agent; else the
\* result of agent.disableDevice(ctx) is the response.
disableDeviceAgent(t) ==
    /\ At(t, "disableDevice", "agent")
    /\ LET id == Top(t).id
       IN IF ~ret[t].ok
          THEN /\ Return(t, Err("not-found"))
               /\ UNCHANGED devices
          ELSE \E answer \in AdapterAnswers :
                  IF answer /\ devices[id].present
                  THEN /\ devices' = [devices EXCEPT ![id].adminState = "DISABLED"]
                       /\ Return(t, Ok(NoDevice))
                  ELSE /\ Return(t, Err("failed"))
                       /\ UNCHANGED devices
    /\ UNCHANGED <<deviceAgents, strays, hydrations, created>>
    /\ UNCHANGED <<ownVars, deleted>>

\* rebootDevice(id), request entry: dMgr.getDeviceAgent(id.Id).
rebootDevice(t, id) ==
    /\ Enter(t, <<Frame("rebootDevice", "agent", id)>> \o CallGetDeviceAgent(id))
    /\ UNCHANGED <<devices, deviceAgents, strays, hydrations, created>>
    /\ UNCHANGED <<ownVars, deleted>>

\* rebootDevice after getDeviceAgent: NotFound for a nil agent; else the
\* result of agent.rebootDevice(ctx) is the response.
rebootDeviceAgent(t) ==
    /\ At(t, "rebootDevice", "agent")
    /\ LET id == Top(t).id
       IN IF ~ret[t].ok
          THEN /\ Return(t, Err("not-found"))
               /\ UNCHANGED devices
          ELSE \E answer \in AdapterAnswers :
                  IF answer /\ devices[id].present
                  THEN /\ devices' = devices
                       /\ Return(t, Ok(NoDevice))
                  ELSE /\ Return(t, Err("failed"))
                       /\ UNCHANGED devices
    /\ UNCHANGED <<deviceAgents, strays, hydrations, created>>
    /\ UNCHANGED <<ownVars, deleted>>

\* deleteDevice(id), request entry: dMgr.getDeviceAgent(id.Id).
deleteDevice(t, id) ==
    /\ Enter(t, <<Frame("deleteDevice", "agent", id)>> \o CallGetDeviceAgent(id))
    /\ UNCHANGED <<devices, deviceAgents, strays, hydrations, created>>
    /\ UNCHANGED <<ownVars, deleted>>

\* deleteDevice after getDeviceAgent: NotFound for nil; else
\* agent.deleteDevice(ctx), which on the adapter's answer removes the device's
\* record from the store, and whose error is the response.
deleteDeviceAgent(t) ==
    /\ At(t, "deleteDevice", "agent")
    /\ LET id == Top(t).id
       IN IF ~ret[t].ok
          THEN /\ Return(t, Err("not-found"))
               /\ UNCHANGED devices
          ELSE \E answer \in AdapterAnswers :
                  IF answer /\ devices[id].present
                  THEN /\ devices' = [devices EXCEPT ![id] = NoDevice]
                       /\ Goto(t, [Top(t) EXCEPT !.pc = "stop"], <<>>)
                  ELSE /\ Return(t, Err("failed"))
                       /\ UNCHANGED devices
    /\ UNCHANGED <<deviceAgents, strays, hydrations, created>>
    /\ UNCHANGED <<ownVars, deleted>>

\* deleteDevice on success: agent.stop(ctx); dMgr.deleteDeviceAgentToMap(agent).
deleteDeviceStop(t) ==
    /\ At(t, "deleteDevice", "stop")
    /\ deviceAgents' = [deviceAgents EXCEPT ![Top(t).id] = "none"]
    /\ Goto(t, [Top(t) EXCEPT !.pc = "abandon"], <<>>)
    /\ UNCHANGED <<devices, strays, hydrations, created>>
    /\ UNCHANGED <<ownVars, deleted>>

\* deleteDevice on success: dMgr.core.deviceOwnership.AbandonDevice(id.Id),
\* whose error is dropped, and the response (nil).
deleteDeviceAbandon(t) ==
    /\ At(t, "deleteDevice", "abandon")
    /\ AbandonDevice(coreInstanceId, Top(t).id)
    /\ Return(t, Ok(NoDevice))
    /\ deleted' = deleted \cup {Top(t).id}
    /\ UNCHANGED <<devices, deviceAgents, strays, hydrations, created>>

(***************************************************************************)
(* Device manager: the operations over all children of a parent.           *)
(***************************************************************************)
\* `for _, childDeviceId := range childDeviceIds`: getDeviceAgent of the next
\* child, or after the last one `if !allChild... { return err }; return nil`.
NextChild(t, f) ==
    IF f.i < Len(f.kids)
    THEN Goto(t, [f EXCEPT !.i = f.i + 1], CallGetDeviceAgent(f.kids[f.i + 1]))
    ELSE ReturnFrom(t, f, IF f.all THEN Ok(NoDevice) ELSE ErrorOf(f.err))

\* The frame of a loop over the children of parentDevice, before its first turn.
ChildLoop(fn, id, parentDevice) ==
    [Frame(fn, "loop", id) EXCEPT !.kids = getAllChildDeviceIds(parentDevice)]

\* The loop variables after agent.<operation> on child i returned err.
AgentReturned(f, err) ==
    [f EXCEPT !.pc = "loop", !.err = err,
              !.all = IF err # "" THEN FALSE ELSE f.all,
              !.tried = Append(f.tried, f.kids[f.i]),
              !.failed = IF err # "" THEN f.failed \cup {f.kids[f.i]} ELSE f.failed]

\* disableAllChildDevices(parentDevice), the callback of a disabled parent.
disableAllChildDevices(t, parentDeviceId) ==
    /\ devices[parentDeviceId].present /\ devices[parentDeviceId].root
    /\ Enter(t, <<ChildLoop("disableAllChildDevices", parentDeviceId,
                            devices[parentDeviceId])>>)
    /\ UNCHANGED <<devices, deviceAgents, strays, hydrations, created>>
    /\ UNCHANGED <<ownVars, deleted>>

\* disableAllChildDevices: the head of the loop.
disableAllChildDevicesLoop(t) ==
    /\ At(t, "disableAllChildDevices", "loop")
    /\ NextChild(t, [Top(t) EXCEPT !.pc = "agent"])
    /\ UNCHANGED <<devices, deviceAgents, strays, hydrations, created>>
    /\ UNCHANGED <<ownVars, deleted>>

\* disableAllChildDevices after getDeviceAgent(childDeviceId): a nil agent is
\* passed over; else `err = agent.disableDevice(nil)`, and a failure clears
\* allChildDisable.
disableAllChildDevicesAgent(t) ==
    /\ At(t, "disableAllChildDevices", "agent")
    /\ LET f == Top(t)
           id == f.kids[f.i]
       IN IF ~ret[t].ok
          THEN /\ Goto(t, [f EXCEPT !.pc = "loop"], <<>>)
               /\ UNCHANGED devices
          ELSE \E answer \in AdapterAnswers :
                  IF answer /\ devices[id].present
                  THEN /\ devices' = [devices EXCEPT ![id].adminState = "DISABLED"]
                       /\ Goto(t, AgentReturned(f, ""), <<>>)
                  ELSE /\ Goto(t, AgentReturned(f, "failed"), <<>>)
                       /\ UNCHANGED devices
    /\ UNCHANGED <<deviceAgents, strays, hydrations, created>>
    /\ UNCHANGED <<ownVars, deleted>>

\* deleteAllChildDevices(parentDevice), the callback of a deleted parent.
deleteAllChildDevices(t, parentDeviceId) ==
    /\ devices[parentDeviceId].present /\ devices[parentDeviceId].root
    /\ Enter(t, <<ChildLoop("deleteAllChildDevices", parentDeviceId,
                            devices[parentDeviceId])>>)
    /\ UNCHANGED <<devices, deviceAgents, strays, hydrations, created>>
    /\ UNCHANGED <<ownVars, deleted>>

\* deleteAllChildDevices: the head of the loop.
deleteAllChildDevicesLoop(t) ==
    /\ At(t, "deleteAllChildDevices", "loop")
    /\ NextChild(t, [Top(t) EXCEPT !.pc = "agent"])
    /\ UNCHANGED <<devices, deviceAgents, strays, hydrations, created>>
    /\ UNCHANGED <<ownVars, deleted>>

\* deleteAllChildDevices after getDeviceAgent(childDeviceId): a nil agent is
\* passed over; else `err = agent.deleteDevice(nil)`, and a failure clears
\* allChildDeleted.
deleteAllChildDevicesAgent(t) ==
    /\ At(t, "deleteAllChildDevices", "agent")
    /\ LET f == Top(t)
           id == f.kids[f.i]
       IN IF ~ret[t].ok
          THEN /\ Goto(t, [f EXCEPT !.pc = "loop"], <<>>)
               /\ UNCHANGED devices
          ELSE \E answer \in AdapterAnswers :
                  IF answer /\ devices[id].present
                  THEN /\ devices' = [devices EXCEPT ![id] = NoDevice]
                       /\ Goto(t, [AgentReturned(f, "") EXCEPT !.pc = "stop"], <<>>)
                  ELSE /\ Goto(t, AgentReturned(f, "failed"), <<>>)
                       /\ UNCHANGED devices
    /\ UNCHANGED <<deviceAgents, strays, hydrations, created>>
    /\ UNCHANGED <<ownVars, deleted>>

\* deleteAllChildDevices on a deleted child: agent.stop(nil);
\* dMgr.deleteDeviceAgentToMap(agent).  Nothing else is done for the child.
deleteAllChildDevicesStop(t) ==
    /\ At(t, "deleteAllChildDevices", "stop")
    /\ deviceAgents' = [deviceAgents EXCEPT ![Top(t).kids[Top(t).i]] = "none"]
    /\ deleted' = deleted \cup {Top(t).kids[Top(t).i]}
    /\ Goto(t, [Top(t) EXCEPT !.pc = "loop"], <<>>)
    /\ UNCHANGED <<devices, strays, hydrations, created>>
    /\ UNCHANGED ownVars

\* updateChildrenStatus(deviceId, operStatus, connStatus), called for a request
\* of an adapter: dMgr.GetDevice(deviceId).
updateChildrenStatus(t, deviceId) ==
    /\ Enter(t, <<Frame("updateChildrenStatus", "parent", deviceId)>>
                    \o CallGetDevice(deviceId))
    /\ UNCHANGED <<devices, deviceAgents, strays, hydrations, created>>
    /\ UNCHANGED <<ownVars, deleted>>

\* updateChildrenStatus after GetDevice(deviceId): Aborted on its error, else
\* the children are listed.
updateChildrenStatusParent(t) ==
    /\ At(t, "updateChildrenStatus", "parent")
    /\ IF ~ret[t].ok
       THEN Return(t, Err("aborted"))
       ELSE Goto(t, [Top(t) EXCEPT !.pc = "loop",
                                   !.kids = getAllChildDeviceIds(ret[t].dev)], <<>>)
    /\ UNCHANGED <<devices, deviceAgents, strays, hydrations, created>>
    /\ UNCHANGED <<ownVars, deleted>>

\* updateChildrenStatus: the head of the loop, and `return nil` after it.
updateChildrenStatusLoop(t) ==
    /\ At(t, "updateChildrenStatus", "loop")
    /\ NextChild(t, [Top(t) EXCEPT !.pc = "agent"])
    /\ UNCHANGED <<devices, deviceAgents, strays, hydrations, created>>
    /\ UNCHANGED <<ownVars, deleted>>

\* updateChildrenStatus after getDeviceAgent(childDeviceId): a nil agent is
\* passed over; else `err = agent.updateDeviceStatus(operStatus, connStatus)`,
\* and an error is returned at once as Aborted.  The two statuses are not
\* among the fields of a device kept here.
updateChildrenStatusAgent(t) ==
    /\ At(t, "updateChildrenStatus", "agent")
    /\ LET f == Top(t)
           id == f.kids[f.i]
       IN IF ~ret[t].ok
          THEN Goto(t, [f EXCEPT !.pc = "loop"], <<>>)
          ELSE \E answer \in AdapterAnswers :
                  IF answer /\ devices[id].present
                  THEN Goto(t, AgentReturned(f, ""), <<>>)
                  ELSE ReturnFrom(t, [AgentReturned(f, "failed") EXCEPT !.pc = "agent"],
                                  Err("aborted"))
    /\ UNCHANGED <<devices, deviceAgents, strays, hydrations, created>>
    /\ UNCHANGED <<ownVars, deleted>>

(***************************************************************************)
(* Device manager: requests answered on a reply channel under a context.   *)
(***************************************************************************)
\* downloadImage(ctx, img, ch), request entry, run as a goroutine by the
\* caller, which made ctx and ch for this request:
\* dMgr.getDeviceAgent(img.Id).
downloadImage(t, id) ==
    /\ Entered(t, <<Frame("downloadImage", "agent", id)>> \o CallGetDeviceAgent(id))
    /\ ctxErr' = [ctxErr EXCEPT ![t] = FALSE]
    /\ reply' = [reply EXCEPT ![t] = NoRet]
    /\ UNCHANGED <<regVars, lockVars>>
    /\ UNCHANGED <<devices, deviceAgents, strays, hydrations, created>>
    /\ UNCHANGED <<ownVars, deleted>>

\* downloadImage after getDeviceAgent: res is NotFound for a nil agent, else
\* what agent.downloadImage(ctx, img) returns, its error when it fails; then
\* sendResponse(ctx, ch, res) is called.
downloadImageAgent(t) ==
    /\ At(t, "downloadImage", "agent")
    /\ IF ~ret[t].ok
       THEN Goto(t, [Top(t) EXCEPT !.pc = "check", !.err = "not-found"], <<>>)
       ELSE \E answer \in AdapterAnswers :
               Goto(t, [Top(t) EXCEPT !.pc = "check",
                                      !.err = IF answer /\ devices[Top(t).id].present
                                              THEN "" ELSE "failed"], <<>>)
    /\ UNCHANGED <<devices, deviceAgents, strays, hydrations, created>>
    /\ UNCHANGED <<ownVars, deleted>>

\* sendResponse: `if ctx.Err() == nil`; with the context done nothing is sent
\* and the goroutine ends.
sendResponseCheck(t) ==
    /\ At(t, "downloadImage", "check")
    /\ IF ctxErr[t]
       THEN Return(t, Err("dropped"))
       ELSE Goto(t, [Top(t) EXCEPT !.pc = "send"], <<>>)
    /\ UNCHANGED <<devices, deviceAgents, strays, hydrations, created>>
    /\ UNCHANGED <<ownVars, deleted>>

\* What `ch <- result` can do: the value is taken from the channel; or, once
\* the context is done and the caller has stopped receiving, the send waits.
SendOutcomes(t) == IF ctxErr[t] THEN {"sent", "waits"} ELSE {"sent"}

\* sendResponse: `ch <- result`.
sendResponseSend(t) ==
    /\ At(t, "downloadImage", "send")
    /\ \E outcome \in SendOutcomes(t) :
          IF outcome = "sent"
          THEN /\ reply' = [reply EXCEPT ![t] = ErrorOf(Top(t).err)]
               /\ Popped(t, Top(t), ErrorOf(Top(t).err))
               /\ UNCHANGED <<ctxErr, regVars, lockVars>>
          ELSE Goto(t, [Top(t) EXCEPT !.pc = "waits"], <<>>)
    /\ UNCHANGED <<devices, deviceAgents, strays, hydrations, created>>
    /\ UNCHANGED <<ownVars, deleted>>

\* The caller's context is cancelled or times out while its request runs.
Cancel(t) ==
    /\ stack[t] # <<>> /\ stack[t][1].fn = "downloadImage"
    /\ ~ctxErr[t]
    /\ ctxErr' = [ctxErr EXCEPT ![t] = TRUE]
    /\ UNCHANGED <<reply, regVars, lockVars, ownVars, dmVars>>

(***************************************************************************)
(* Device manager: state transitions.                                      *)
(***************************************************************************)
\* The handler lists dMgr.stateTransitions.GetTransitionHandler(previous,
\* current) may return: nil, or an ordered list in which notAllowed stands
\* alone.
TransitionHandlers ==
    {<<>>, <<"notAllowed">>, <<"noOp">>, <<"activateDevice">>,
     <<"createLogicalDevice">>, <<"setupUNILogicalPorts", "reEnableDevice">>,
     <<"disableAllChildDevices", "deleteLogicalDevice", "disableDeviceHandler">>,
     <<"deleteAllChildDevices", "deleteLogicalPort", "abandonDevice">>}

\* The handlers that loop over the children of the device.
ChildHandlers == {"disableAllChildDevices", "deleteAllChildDevices"}

\* What the other handlers may return ("" for nil): activateDevice,
\* disableDeviceHandler, abandonDevice, reEnableDevice and noOp return nil;
\* notAllowed returns errors.New("Transition-not-allowed"), an error without a
\* status code; the remaining ones return the error of the logical device
\* manager, if any.
HandlerErrors(handler) ==
    IF handler = "notAllowed" THEN {"Transition-not-allowed"}
    ELSE IF handler \in {"createLogicalDevice", "deleteLogicalDevice",
                         "deleteLogicalPort", "setupUNILogicalPorts"}
    THEN {"", "failed"}
    ELSE {""}

\* processTransition(previous, current), called by the agent of current.Id on
\* an update of the device: the handlers are looked up.
processTransition(t, id, handlers) ==
    /\ devices[id].present
    /\ Enter(t, <<[Frame("processTransition", "loop", id) EXCEPT !.kids = handlers]>>)
    /\ UNCHANGED <<devices, deviceAgents, strays, hydrations, created>>
    /\ UNCHANGED <<ownVars, deleted>>

\* A processTransition that notes the error of a handler and goes on to the
\* next one.
processTransitionLoopOn(t) ==
    /\ At(t, "processTransition", "loop")
    /\ LET f == Top(t)
           handler == f.kids[f.i + 1]
           g == [f EXCEPT !.i = f.i + 1, !.tried = Append(f.tried, handler)]
       IN IF f.i = Len(f.kids)
          THEN Return(t, Ok(NoDevice))
          ELSE IF handler \in ChildHandlers
          THEN Goto(t, [g EXCEPT !.pc = "ran"],
                    <<ChildLoop(handler, f.id, devices[f.id])>>)
          ELSE \E e \in HandlerErrors(handler) :
                  IF e = "" THEN Goto(t, g, <<>>)
                            ELSE Goto(t, [g EXCEPT !.err = e], <<>>)
    /\ UNCHANGED <<devices, deviceAgents, strays, hydrations, created>>
    /\ UNCHANGED <<ownVars, deleted>>

\* processTransition: `return nil` for no handlers and after the last one;
\* else `err := handler(current)` for the next one, and `return err` if it
\* is not nil.
processTransitionLoop(t) ==
    /\ At(t, "processTransition", "loop")
    /\ LET f == Top(t)
           handler == f.kids[f.i + 1]
           g == [f EXCEPT !.i = f.i + 1, !.tried = Append(f.tried, handler)]
       IN IF f.i = Len(f.kids)
          THEN Return(t, Ok(NoDevice))
          ELSE IF handler \in ChildHandlers
          THEN Goto(t, [g EXCEPT !.pc = "ran"],
                    <<ChildLoop(handler, f.id, devices[f.id])>>)
          ELSE \E e \in HandlerErrors(handler) :
                  IF e = "" THEN Goto(t, g, <<>>)
                            ELSE ReturnFrom(t, [g EXCEPT !.err = e], Err(e))
    /\ UNCHANGED <<devices, deviceAgents, strays, hydrations, created>>
    /\ UNCHANGED <<ownVars, deleted>>

\* processTransition after a handler that loops over the children returned.
processTransitionRan(t) ==
    /\ At(t, "processTransition", "ran")
    /\ IF ret[t].ok
       THEN Goto(t, [Top(t) EXCEPT !.pc = "loop"], <<>>)
       ELSE ReturnFrom(t, [Top(t) EXCEPT !.err = ret[t].err], Err(ret[t].err))
    /\ UNCHANGED <<devices, deviceAgents, strays, hydrations, created>>
    /\ UNCHANGED <<ownVars, deleted>>

(***************************************************************************)
(* Specifications.                                                         *)
(***************************************************************************)
InitOwn ==
    /\ deviceMap = [r \in Replicas |-> [id \in DeviceIds |-> NoOwnership]]
    /\ nextChnl = [r \in Replicas |-> 0]
    /\ closed = [r \in Replicas |-> {}]
    /\ monitor = [r \in Replicas |-> [c \in Chnls |-> NoMonitor]]
    /\ exitChannel = [r \in Replicas |-> 0]
    /\ stopped = [r \in Replicas |-> FALSE]
    /\ calls = [r \in Replicas |-> [t \in Callers |-> NoCaller]]
    /\ kvReservations = [id \in DeviceIds |-> NoLease]
    /\ partitioned = {}
    /\ last = NoCall
    /\ overlap = [id \in DeviceIds |-> 0]

\* The device manager after newDeviceManager, on a store that holds an enabled
\* root device d1 and its enabled child d2 (serial S1, onu id 1, port 1).
InitDM ==
    /\ devices = [id \in DeviceIds |->
          IF id = "d1"
          THEN [NoDevice EXCEPT !.present = TRUE, !.root = TRUE,
                                !.adminState = "ENABLED", !.peers = <<"d2">>]
          ELSE IF id = "d2"
          THEN [NoDevice EXCEPT !.present = TRUE, !.parentId = "d1",
                                !.adminState = "ENABLED", !.serial = "S1",
                                !.onuId = 1, !.parentPortNo = 1,
                                !.peers = <<"d1">>]
          ELSE NoDevice]
    /\ deviceAgents = [id \in DeviceIds |-> "none"]
    /\ strays = [id \in DeviceIds |-> 0]
    /\ hydrations = [id \in DeviceIds |-> 0]
    /\ created = 0
    /\ stack = [t \in Callers |-> <<>>]
    /\ ret = [t \in Callers |-> NoRet]
    /\ dmLast = NoLast
    /\ deleted = {}

(***************************************************************************)
(* The adapter manager (device_ownership.go, from line 167).               *)
(***************************************************************************)
SentinelAdapterID == "adapter_sentinel"
SentinelDevicetypeID == "device_type_sentinel"

AdapterIds == {"a1", "a2", SentinelAdapterID}
DeviceTypeIds == {"dt1", "dt2", SentinelDevicetypeID}

\* The milliseconds of a second, scaled, and the last instant of the clock.
MsPerSec == 2
MaxNow == 4

\* A time.Time, as seconds and nanoseconds; no timestamp (nil) is NoTime.
NoTime == <<-1, 0>>
After(a, b) == a[1] > b[1] \/ (a[1] = b[1] /\ a[2] > b[2])

\* time.Unix(timestamp/1000, timestamp%1000*1000) for a timestamp in ms.
UnixOf(timestamp) == <<timestamp \div MsPerSec, (timestamp % MsPerSec) * 1000>>

\* The clock's instant, `now` being in ms.
TimeNow == <<now \div MsPerSec, (now % MsPerSec) * 1000000>>

\* A voltha.Adapter and a voltha.DeviceType.
Adapter(id, vendor) == [id |-> id, vendor |-> vendor, lastCommunication |-> NoTime]
DeviceType(id, adapter) == [id |-> id, adapter |-> adapter]

NoDeviceTypes == [d \in DeviceTypeIds |-> ""]
NoAgent == [present |-> FALSE, adapter |-> Adapter("", ""), deviceTypes |-> NoDeviceTypes]
NoAgents == [a \in AdapterIds |-> NoAgent]

\* The items of a voltha.DeviceTypes as the map newAdapterAgent builds of them.
RECURSIVE ItemsMap(_)
ItemsMap(items) ==
    IF items = <<>> THEN NoDeviceTypes
    ELSE [ItemsMap(SubSeq(items, 1, Len(items) - 1))
              EXCEPT ![items[Len(items)].id] = items[Len(items)].adapter]

newAdapterAgent(adapter, items) ==
    [present |-> TRUE, adapter |-> adapter, deviceTypes |-> ItemsMap(items)]

\* The state an operation of the manager works on, and what it returns.
Registry == [agents |-> adapterAgents, map |-> deviceTypeToAdapterMap,
             kvA |-> kvAdapters, kvD |-> kvDeviceTypes, err |-> ""]
Failed(reg, e) == [reg EXCEPT !.err = e]

\* addAdapter under lockAdaptersMap; kvOk is whether its KV round trips succeed.
addAdapter(reg, adapter, saveToDb, kvOk) ==
    IF reg.agents[adapter.id].present THEN reg
    ELSE IF saveToDb /\ ~kvOk THEN Failed(reg, "unavailable")
    ELSE [reg EXCEPT !.kvA = IF saveToDb THEN @ \cup {adapter.id} ELSE @,
                     !.agents[adapter.id] = newAdapterAgent(adapter, <<>>)]

\* The adapters found by List are added one after the other, none being saved.
RECURSIVE addAdapters(_, _)
addAdapters(reg, ids) ==
    IF ids = {} THEN reg
    ELSE LET id == CHOOSE a \in ids : TRUE
         IN  addAdapters(addAdapter(reg, Adapter(id, "v1"), FALSE, TRUE), ids \ {id})

\* The first loop of addDeviceTypes: Get, then AddWithID when the row is absent.
RECURSIVE saveDeviceTypes(_, _, _)
saveDeviceTypes(kvD, items, k) ==
    IF k = 0 THEN kvD
    ELSE LET before == saveDeviceTypes(kvD, items, k - 1)
         IN  IF before[items[k].id] # "" THEN before
             ELSE [before EXCEPT ![items[k].id] = items[k].adapter]

\* The second loop of addDeviceTypes, up to item k of `items`.
RECURSIVE saveLocally(_, _, _)
saveLocally(reg, items, k) ==
    IF k = 0 THEN reg
    ELSE LET before == saveLocally(reg, items, k - 1)
             clonedDType == items[k]
             agent == before.agents[clonedDType.adapter]
         IN  [before EXCEPT
                !.agents[clonedDType.adapter] =
                    IF agent.present
                    THEN [agent EXCEPT !.deviceTypes[clonedDType.id] = clonedDType.adapter]
                    ELSE newAdapterAgent(Adapter(clonedDType.adapter, ""), items),
                !.map[clonedDType.id] = clonedDType.adapter]

\* addDeviceTypes under both locks; the KV round trip for item failAt fails
\* (0: none does).
addDeviceTypes(reg, items, saveToDb, failAt) ==
    IF saveToDb /\ failAt > 0
    THEN Failed([reg EXCEPT !.kvD = saveDeviceTypes(@, items, failAt - 1)], "unavailable")
    ELSE saveLocally([reg EXCEPT !.kvD = IF saveToDb
                                         THEN saveDeviceTypes(@, items, Len(items))
                                         ELSE @],
                     items, Len(items))

\* The rows List finds under "device_types".
RECURSIVE ListedTypes(_, _)
ListedTypes(kvD, ids) ==
    IF ids = {} THEN <<>>
    ELSE LET id == CHOOSE d \in ids : TRUE
         IN  <<DeviceType(id, kvD[id])>> \o ListedTypes(kvD, ids \ {id})

KvFaults == {"", "list-adapters", "add-adapter", "list-device-types", "add-device-type"}

\* loadAdaptersAndDevicetypesInMemory in a new process, `fault` being the KV
\* round trip that fails.
loadAdaptersAndDevicetypesInMemory(reg, fault) ==
    IF fault = "list-adapters" THEN Failed(reg, "unavailable")
    ELSE IF reg.kvA = {}
    THEN addAdapter(reg, Adapter(SentinelAdapterID, ""), TRUE, fault # "add-adapter")
    ELSE LET loaded == addAdapters(reg, reg.kvA)
             listed == {d \in DeviceTypeIds : reg.kvD[d] # ""}
         IN  IF fault = "list-device-types" THEN Failed(loaded, "unavailable")
             ELSE IF listed # {}
             THEN addDeviceTypes(loaded, ListedTypes(reg.kvD, listed), FALSE, 0)
             ELSE addDeviceTypes(loaded,
                                 <<DeviceType(SentinelDevicetypeID, SentinelAdapterID)>>,
                                 TRUE,
                                 IF fault = "add-device-type" THEN 1 ELSE 0)

\* listAdapters without its test of the sentinel.
listAdaptersAll(agents) ==
    {agents[a].adapter : a \in {b \in AdapterIds : agents[b].present}}

\* listAdapters: the adapters of the agents, but for the sentinel, cloned.
listAdapters(agents) ==
    {a \in listAdaptersAll(agents) : a.id # SentinelAdapterID}

\* AdapterAgent.getDeviceType and the loop of listDeviceTypes.
listDeviceTypes(agents, map) ==
    {DeviceType(d, agents[map[d]].deviceTypes[d]) :
        d \in {e \in DeviceTypeIds :
                 /\ map[e] # ""
                 /\ agents[map[e]].present
                 /\ agents[map[e]].deviceTypes[e] # ""
                 /\ e # SentinelDevicetypeID}}

\* getAdapter finding no agent, whatever the id.
getAdapterNone(agents, adapterID) == NoAgent.adapter

\* getAdapter: the adapter the agent holds, itself; NoAgent's when there is none.
getAdapter(agents, adapterID) ==
    IF adapterID \in AdapterIds /\ agents[adapterID].present
    THEN agents[adapterID].adapter ELSE NoAgent.adapter

\* getAdapterName: the adapter id and the error.
getAdapterName(map, deviceType) ==
    IF map[deviceType] # "" THEN [name |-> map[deviceType], err |-> ""]
    ELSE [name |-> "", err |-> "not-registered"]

\* getDeviceType: the device type's id, "" for nil.
getDeviceType(agents, map, deviceType) ==
    IF map[deviceType] # "" /\ agents[map[deviceType]].present
          /\ agents[map[deviceType]].deviceTypes[deviceType] # ""
    THEN deviceType ELSE ""

NoGot == [id |-> "", shared |-> FALSE]
NoRegCall == [pc |-> "idle", adapter |-> Adapter("", ""), items |-> <<>>,
              new |-> NoTime, got |-> NoGot]
NoRegLast == [op |-> "", t |-> None, arg |-> "", err |-> "", adapters |-> {},
              deviceTypes |-> {}, name |-> "", instance |-> "", restarted |-> FALSE]
Answer(op, t, arg) == [NoRegLast EXCEPT !.op = op, !.t = t, !.arg = arg]

\* The manager's maps and the KV prefixes become those of reg.
Commit(reg) ==
    /\ adapterAgents' = reg.agents
    /\ deviceTypeToAdapterMap' = reg.map
    /\ kvAdapters' = reg.kvA
    /\ kvDeviceTypes' = reg.kvD

RegIdle(t) == running /\ regCalls[t].pc = "idle"

\* What a registering adapter sends.
Registrations ==
    {[adapter |-> Adapter("a1", "v1"),
      items |-> <<DeviceType("dt1", "a1"), DeviceType("dt2", "a1")>>],
     [adapter |-> Adapter("a2", "v1"), items |-> <<DeviceType("dt2", "a2")>>],
     [adapter |-> Adapter("a2", "v1"),
      items |-> <<DeviceType("dt2", "a2"), DeviceType("dt1", "a1")>>]}

\* newAdapterManager and start, in a new process.
start(fault) ==
    /\ ~running
    /\ LET loaded == loadAdaptersAndDevicetypesInMemory(
                         [Registry EXCEPT !.agents = NoAgents, !.map = NoDeviceTypes],
                         fault)
       IN  /\ Commit(loaded)
           /\ running' = (loaded.err = "")
           /\ regLast' = [Answer("start", None, fault) EXCEPT !.err = loaded.err]
    /\ UNCHANGED <<now, regCalls>>
    /\ UNCHANGED <<ownVars, dmVars, rpcVars, lockVars>>

\* The process ends, and its memory with it; the KV store keeps its rows.
Crash ==
    /\ running
    /\ running' = FALSE
    /\ adapterAgents' = NoAgents
    /\ deviceTypeToAdapterMap' = NoDeviceTypes
    /\ regCalls' = [t \in Callers |-> NoRegCall]
    /\ regLast' = NoRegLast
    /\ UNCHANGED <<kvAdapters, kvDeviceTypes, now>>
    /\ UNCHANGED <<ownVars, dmVars, rpcVars, lockVars>>

\* registerAdapter up to its test of getAdapter; adapterRestarted is started
\* for an adapter that is found.
registerAdapter(t, adapter, items) ==
    /\ RegIdle(t)
    /\ IF getAdapter(adapterAgents, adapter.id) # NoAgent.adapter
       THEN /\ regLast' = [Answer("registerAdapter", t, adapter.id) EXCEPT
                              !.instance = coreInstanceId, !.restarted = TRUE]
            /\ UNCHANGED regCalls
       ELSE /\ regCalls' = [regCalls EXCEPT ![t] = [NoRegCall EXCEPT
                              !.pc = "addAdapter", !.adapter = adapter, !.items = items]]
            /\ regLast' = NoRegLast
    /\ UNCHANGED <<adapterAgents, deviceTypeToAdapterMap, kvAdapters, kvDeviceTypes,
                   running, now>>
    /\ UNCHANGED <<ownVars, dmVars, rpcVars, lockVars>>

\* registerAdapter: addAdapter(adapter, true).
registerAdapterAdd(t, kvOk) ==
    /\ running
    /\ regCalls[t].pc = "addAdapter"
    /\ LET added == addAdapter(Registry, regCalls[t].adapter, TRUE, kvOk)
       IN  /\ Commit(added)
           /\ IF added.err # ""
              THEN /\ regCalls' = [regCalls EXCEPT ![t] = NoRegCall]
                   /\ regLast' = [Answer("registerAdapter", t, regCalls[t].adapter.id)
                                     EXCEPT !.err = added.err]
              ELSE /\ regCalls' = [regCalls EXCEPT ![t].pc = "addDeviceTypes"]
                   /\ regLast' = NoRegLast
    /\ UNCHANGED <<running, now>>
    /\ UNCHANGED <<ownVars, dmVars, rpcVars, lockVars>>

\* registerAdapter: addDeviceTypes(deviceTypes, true) and the return.
registerAdapterTypes(t, failAt) ==
    /\ running
    /\ regCalls[t].pc = "addDeviceTypes"
    /\ failAt \in 0 .. Len(regCalls[t].items)
    /\ LET added == addDeviceTypes(Registry, regCalls[t].items, TRUE, failAt)
       IN  /\ Commit(added)
           /\ regLast' = [Answer("registerAdapter", t, regCalls[t].adapter.id) EXCEPT
                             !.err = added.err,
                             !.instance = IF added.err = "" THEN coreInstanceId ELSE ""]
    /\ regCalls' = [regCalls EXCEPT ![t] = NoRegCall]
    /\ UNCHANGED <<running, now>>
    /\ UNCHANGED <<ownVars, dmVars, rpcVars, lockVars>>

\* A call that reads the maps and returns `answer`, the caller keeping `got`.
Reads(t, answer, got) ==
    /\ RegIdle(t)
    /\ regLast' = answer
    /\ regCalls' = [regCalls EXCEPT ![t].got = got]
    /\ UNCHANGED <<adapterAgents, deviceTypeToAdapterMap, kvAdapters, kvDeviceTypes,
                   running, now>>
    /\ UNCHANGED <<ownVars, dmVars, rpcVars, lockVars>>

\* listAdapters; the caller keeps one of the clones it was given.
listAdaptersCall(t, id) ==
    LET listed == {a.id : a \in listAdapters(adapterAgents)}
    IN  /\ id \in listed \/ (listed = {} /\ id = "")
        /\ Reads(t, [Answer("listAdapters", t, "") EXCEPT !.adapters = listed],
                 [id |-> id, shared |-> FALSE])

listDeviceTypesCall(t) ==
    Reads(t, [Answer("listDeviceTypes", t, "") EXCEPT
                 !.deviceTypes = {d.id : d \in listDeviceTypes(adapterAgents,
                                                               deviceTypeToAdapterMap)}],
          NoGot)

\* getAdapter; the caller keeps the pointer it was given.
getAdapterCall(t, adapterID) ==
    LET a == getAdapter(adapterAgents, adapterID)
    IN  Reads(t, [Answer("getAdapter", t, adapterID) EXCEPT
                     !.adapters = IF a = NoAgent.adapter THEN {} ELSE {a.id}],
              IF a = NoAgent.adapter THEN NoGot ELSE [id |-> a.id, shared |-> TRUE])

getAdapterNameCall(t, deviceType) ==
    LET a == getAdapterName(deviceTypeToAdapterMap, deviceType)
    IN  Reads(t, [Answer("getAdapterName", t, deviceType) EXCEPT
                     !.name = a.name, !.err = a.err],
              NoGot)

getDeviceTypeCall(t, deviceType) ==
    LET d == getDeviceType(adapterAgents, deviceTypeToAdapterMap, deviceType)
    IN  Reads(t, [Answer("getDeviceType", t, deviceType) EXCEPT
                     !.deviceTypes = IF d = "" THEN {} ELSE {d}],
              NoGot)

\* The caller writes a field of the adapter record it was given: the record
\* of the agent when it holds the agent's pointer, its own otherwise.
MutateReturned(t) ==
    /\ RegIdle(t)
    /\ regCalls[t].got # NoGot
    /\ adapterAgents' = IF regCalls[t].got.shared
                        THEN [adapterAgents EXCEPT
                                 ![regCalls[t].got.id].adapter.vendor = "mutated"]
                        ELSE adapterAgents
    /\ regCalls' = [regCalls EXCEPT ![t].got = NoGot]
    /\ regLast' = Answer("mutate", t, regCalls[t].got.id)
    /\ UNCHANGED <<deviceTypeToAdapterMap, kvAdapters, kvDeviceTypes, running, now>>
    /\ UNCHANGED <<ownVars, dmVars, rpcVars, lockVars>>

\* updateLastAdapterCommunication and updateCommunicationTime up to its test,
\* which reads the stored time and the clock before the agent's lock is taken.
updateLastAdapterCommunication(t, adapterID, timestamp) ==
    /\ RegIdle(t)
    /\ LET new == UnixOf(timestamp)
           stored == adapterAgents[adapterID].adapter.lastCommunication
       IN  IF /\ adapterAgents[adapterID].present
              /\ ~After(new, TimeNow)
              /\ (stored = NoTime \/ After(new, stored))
           THEN regCalls' = [regCalls EXCEPT ![t] = [NoRegCall EXCEPT
                                !.pc = "write", !.adapter = Adapter(adapterID, ""),
                                !.new = new]]
           ELSE UNCHANGED regCalls
    /\ regLast' = NoRegLast
    /\ UNCHANGED <<adapterAgents, deviceTypeToAdapterMap, kvAdapters, kvDeviceTypes,
                   running, now>>
    /\ UNCHANGED <<ownVars, dmVars, rpcVars, lockVars>>

\* updateCommunicationTime: the assignment, under the agent's lock.
updateCommunicationTime(t) ==
    /\ running
    /\ regCalls[t].pc = "write"
    /\ adapterAgents' = [adapterAgents EXCEPT
                            ![regCalls[t].adapter.id].adapter.lastCommunication =
                                regCalls[t].new]
    /\ regCalls' = [regCalls EXCEPT ![t] = NoRegCall]
    /\ regLast' = Answer("updateLastAdapterCommunication", t, regCalls[t].adapter.id)
    /\ UNCHANGED <<deviceTypeToAdapterMap, kvAdapters, kvDeviceTypes, running, now>>
    /\ UNCHANGED <<ownVars, dmVars, rpcVars, lockVars>>

\* Time passes.
ClockTick ==
    /\ now < MaxNow
    /\ now' = now + 1
    /\ regLast' = NoRegLast
    /\ UNCHANGED <<adapterAgents, deviceTypeToAdapterMap, kvAdapters, kvDeviceTypes,
                   running, regCalls>>
    /\ UNCHANGED <<ownVars, dmVars, rpcVars, lockVars>>

\* A new KV store, no process yet.
InitReg ==
    /\ adapterAgents = NoAgents
    /\ deviceTypeToAdapterMap = NoDeviceTypes
    /\ kvAdapters = {}
    /\ kvDeviceTypes = NoDeviceTypes
    /\ running = FALSE
    /\ now = 0
    /\ regCalls = [t \in Callers |-> NoRegCall]
    /\ regLast = NoRegLast

(***************************************************************************)
(* The adapter manager: the order in which its operations take and release *)
(* lockAdaptersMap, lockdDeviceTypeToAdapterMap and the lock of an agent.  *)
(***************************************************************************)
LockNames == {"lockAdaptersMap", "lockdDeviceTypeToAdapterMap", "lock"}

Do(op, name) == [do |-> op, on |-> name]

\* addAdapter: Lock and the deferred Unlock.
addAdapterLocks ==
    <<Do("Lock", "lockAdaptersMap"), Do("Unlock", "lockAdaptersMap")>>

\* addDeviceTypes: both locks of the manager, updateDeviceType under them,
\* the deferred Unlocks in reverse order.
addDeviceTypesLocks ==
    <<Do("Lock", "lockAdaptersMap"), Do("Lock", "lockdDeviceTypeToAdapterMap"),
      Do("Lock", "lock"), Do("Unlock", "lock"),
      Do("Unlock", "lockdDeviceTypeToAdapterMap"), Do("Unlock", "lockAdaptersMap")>>

\* listAdapters and getAdapter: RLock, AdapterAgent.getAdapter, RUnlock.
getAdapterLocks ==
    <<Do("RLock", "lockAdaptersMap"), Do("RLock", "lock"), Do("RUnlock", "lock"),
      Do("RUnlock", "lockAdaptersMap")>>

\* getAdapterName.
getAdapterNameLocks ==
    <<Do("Lock", "lockdDeviceTypeToAdapterMap"),
      Do("Unlock", "lockdDeviceTypeToAdapterMap")>>

\* A listDeviceTypes that read-locks the adapter table before it reads it.
listDeviceTypesLocksBoth ==
    <<Do("Lock", "lockdDeviceTypeToAdapterMap"), Do("RLock", "lockAdaptersMap"),
      Do("RLock", "lock"), Do("RUnlock", "lock"), Do("RUnlock", "lockAdaptersMap"),
      Do("Unlock", "lockdDeviceTypeToAdapterMap")>>

\* listDeviceTypes and getDeviceType: the device-type lock, then
\* AdapterAgent.getDeviceType; adapterAgents is read without its lock.
listDeviceTypesLocks ==
    <<Do("Lock", "lockdDeviceTypeToAdapterMap"), Do("RLock", "lock"),
      Do("RUnlock", "lock"), Do("Unlock", "lockdDeviceTypeToAdapterMap")>>

\* updateLastAdapterCommunication, then updateCommunicationTime when it stores.
updateLastAdapterCommunicationLocks ==
    <<Do("RLock", "lockAdaptersMap"), Do("RUnlock", "lockAdaptersMap"),
      Do("Lock", "lock"), Do("Unlock", "lock")>>

\* registerAdapter of an adapter that is not there: getAdapter, addAdapter,
\* addDeviceTypes.
registerAdapterLocks == getAdapterLocks \o addAdapterLocks \o addDeviceTypesLocks

\* loadAdaptersAndDevicetypesInMemory: addAdapter, addDeviceTypes.
loadLocks == addAdapterLocks \o addDeviceTypesLocks

\* The lock operations of each operation of the registry.
LockPrograms ==
    {loadLocks, registerAdapterLocks, getAdapterLocks, getAdapterNameLocks,
     listDeviceTypesLocks, updateLastAdapterCommunicationLocks}

NoRWLock == [writer |-> None, readers |-> {}, pending |-> {}]
NoLockCall == [steps |-> <<>>, held |-> <<>>]

\* The operation a caller waits to do or does next.
NextDo(t) == lockCalls[t].steps[1]

\* sync.RWMutex: Lock waits for the writer and the readers to leave; RLock
\* waits for the writer and for any goroutine that waits in Lock.
CanDo(t) ==
    /\ lockCalls[t].steps # <<>>
    /\ LET l == rwLocks[NextDo(t).on]
       IN  CASE NextDo(t).do = "Lock" ->
                   t \notin l.pending \/ (l.writer = None /\ l.readers = {})
             [] NextDo(t).do = "RLock" -> l.writer = None /\ l.pending = {}
             [] OTHER -> TRUE

Done(t, l) ==
    /\ rwLocks' = [rwLocks EXCEPT ![NextDo(t).on] = l]
    /\ lockCalls' = [lockCalls EXCEPT
          ![t].steps = Tail(@),
          ![t].held = IF NextDo(t).do \in {"Lock", "RLock"}
                      THEN Append(@, NextDo(t).on)
                      ELSE SelectSeq(@, LAMBDA h : h # NextDo(t).on)]
    /\ UNCHANGED <<ownVars, dmVars, rpcVars, regVars>>

\* An operation of the registry is called.
LockCall(t, steps) ==
    /\ lockCalls[t] = NoLockCall
    /\ lockCalls' = [lockCalls EXCEPT ![t].steps = steps]
    /\ UNCHANGED rwLocks
    /\ UNCHANGED <<ownVars, dmVars, rpcVars, regVars>>

\* Lock is called: from now on no new reader is let in.
LockWait(t) ==
    /\ lockCalls[t].steps # <<>>
    /\ NextDo(t).do = "Lock"
    /\ t \notin rwLocks[NextDo(t).on].pending
    /\ rwLocks' = [rwLocks EXCEPT ![NextDo(t).on].pending = @ \cup {t}]
    /\ UNCHANGED lockCalls
    /\ UNCHANGED <<ownVars, dmVars, rpcVars, regVars>>

\* Lock returns.
Lock(t) ==
    /\ lockCalls[t].steps # <<>>
    /\ NextDo(t).do = "Lock"
    /\ t \in rwLocks[NextDo(t).on].pending
    /\ CanDo(t)
    /\ Done(t, [rwLocks[NextDo(t).on] EXCEPT !.writer = t, !.pending = @ \ {t}])

\* RLock returns.
RLock(t) ==
    /\ lockCalls[t].steps # <<>>
    /\ NextDo(t).do = "RLock"
    /\ CanDo(t)
    /\ Done(t, [rwLocks[NextDo(t).on] EXCEPT !.readers = @ \cup {t}])

Unlock(t) ==
    /\ lockCalls[t].steps # <<>>
    /\ NextDo(t).do = "Unlock"
    /\ Done(t, [rwLocks[NextDo(t).on] EXCEPT !.writer = None])

RUnlock(t) ==
    /\ lockCalls[t].steps # <<>>
    /\ NextDo(t).do = "RUnlock"
    /\ Done(t, [rwLocks[NextDo(t).on] EXCEPT !.readers = @ \ {t}])

InitLocks ==
    /\ rwLocks = [l \in LockNames |-> NoRWLock]
    /\ lockCalls = [t \in Callers |-> NoLockCall]

\* No request has a context yet.
InitRpc ==
    /\ ctxErr = [t \in Callers |-> FALSE]
    /\ reply = [t \in Callers |-> NoRet]

InitExt == InitRpc /\ InitReg /\ InitLocks

Init == InitOwn /\ InitDM /\ InitExt

\* A step of the ownership arbiter leaves the device manager alone.
Own(A) == A /\ UNCHANGED <<dmVars, extVars>>

\* The device id that both replicas ask for in the two-replica specifications.
ContendedIds == {"d1"}
\* The replica whose shutdown and abandonment are followed across all its devices.
ShutdownReplicas == {"A"}
ShutdownIds == {"d1", "d2"}

\* Two replicas contend for one device; the KV store always answers and the
\* arbiters are not shut down.
NextReliable ==
    \/ \E r \in Replicas, t \in Callers, id \in ContendedIds : Own(getOwnershipLookup(r, t, id))
    \/ \E r \in Replicas, t \in Callers : Own(getOwnershipReserve(r, t))
    \/ \E r \in Replicas, t \in Callers : Own(getOwnershipWrite(r, t))
    \/ \E r \in Replicas, id \in ContendedIds : Own(AbandonDevice(r, id))
    \/ \E r \in Replicas, c \in Chnls : Own(MonitorRenew(r, c))
    \/ \E r \in Replicas, c \in Chnls : Own(MonitorRetry(r, c))
    \/ \E r \in Replicas, c \in Chnls : Own(MonitorSet(r, c))
    \/ \E r \in Replicas, c \in Chnls : Own(MonitorClosed(r, c))
    \/ Own(Tick)

SpecReliable == Init /\ [][NextReliable]_vars

\* The replica that loses its connection to the store, and the request
\* goroutine each replica runs, in the specification with KV failures.
FaultyReplicas == {"A"}
FaultyCallers == {"t1"}

\* Two replicas contend for one device while one of them loses and regains
\* its connection to the store.
NextFaulty ==
    \/ \E r \in Replicas, t \in FaultyCallers, id \in ContendedIds : Own(getOwnershipLookup(r, t, id))
    \/ \E r \in Replicas, t \in FaultyCallers : Own(getOwnershipReserve(r, t))
    \/ \E r \in Replicas, t \in FaultyCallers : Own(getOwnershipWrite(r, t))
    \/ \E r \in Replicas, id \in ContendedIds : Own(AbandonDevice(r, id))
    \/ \E r \in Replicas, c \in Chnls : Own(MonitorRenew(r, c))
    \/ \E r \in Replicas, c \in Chnls : Own(MonitorRetry(r, c))
    \/ \E r \in Replicas, c \in Chnls : Own(MonitorSet(r, c))
    \/ \E r \in Replicas, c \in Chnls : Own(MonitorClosed(r, c))
    \/ Own(Tick)
    \/ \E r \in FaultyReplicas : Own(Partition(r))
    \/ \E r \in FaultyReplicas : Own(Heal(r))

SpecFaulty == Init /\ [][NextFaulty]_vars

\* One replica monitoring several devices, abandoning them and shutting down.
NextShutdown ==
    \/ \E r \in ShutdownReplicas, t \in Callers, id \in ShutdownIds : Own(getOwnershipLookup(r, t, id))
    \/ \E r \in ShutdownReplicas, t \in Callers : Own(getOwnershipReserve(r, t))
    \/ \E r \in ShutdownReplicas, t \in Callers : Own(getOwnershipWrite(r, t))
    \/ \E r \in ShutdownReplicas, id \in ShutdownIds : Own(AbandonDevice(r, id))
    \/ \E r \in ShutdownReplicas : Own(Stop(r))
    \/ \E r \in ShutdownReplicas, c \in Chnls : Own(MonitorRenew(r, c))
    \/ \E r \in ShutdownReplicas, c \in Chnls : Own(MonitorRetry(r, c))
    \/ \E r \in ShutdownReplicas, c \in Chnls : Own(MonitorSet(r, c))
    \/ \E r \in ShutdownReplicas, c \in Chnls : Own(MonitorExit(r, c))
    \/ \E r \in ShutdownReplicas, c \in Chnls : Own(MonitorClosed(r, c))
    \/ Own(Tick)

SpecShutdown == Init /\ [][NextShutdown]_vars

\* The steps of lookup-or-load, whoever calls it.
AgentSteps(t) ==
    \/ getDeviceAgentLookup(t)
    \/ getDeviceAgentLoaded(t)
    \/ loadLoaded(t)
    \/ loadChildren(t)
    \/ loadDeviceCheck(t)
    \/ loadDeviceStart(t)
    \/ loadDeviceAdd(t)
    \/ loadDeviceGot(t)

\* The steps of GetDevice.
LoadSteps(t) ==
    \/ GetDeviceGot(t)
    \/ AgentSteps(t)

\* Concurrent get(id) of one id on a replica that has just started: empty
\* agent table, the devices in the KV store.
ColdIds == {"d1"}

NextColdGet ==
    \/ \E t \in Callers, id \in ColdIds : GetDevice(t, id)
    \/ \E t \in Callers : LoadSteps(t)

SpecColdGet == Init /\ [][NextColdGet]_vars

\* The agent table of one replica under concurrent get, list, reconcile and
\* create requests.
NextAgents ==
    \/ \E t \in Callers, id \in KvIds : GetDevice(t, id)
    \/ \E t \in Callers : LoadSteps(t)
    \/ \E t \in Callers : ListDevices(t)
    \/ \E t \in Callers : ListDevicesCheck(t)
    \/ \E t \in Callers : ListDevicesStart(t)
    \/ \E t \in Callers : ListDevicesAdd(t)
    \/ \E t \in Callers, ids \in ReconcileIds : ReconcileDevices(t, ids)
    \/ \E t \in Callers : ReconcileDevicesCheck(t)
    \/ \E t \in Callers : ReconcileDevicesStart(t)
    \/ \E t \in Callers : ReconcileDevicesAdd(t)
    \/ \E t \in Callers : createDevice(t)
    \/ \E t \in Callers : createDeviceStart(t)

SpecAgents == Init /\ [][NextAgents]_vars

\* The parents that report children.
DetectingParents == {"d1"}

\* Child detection and port reports under one parent, from concurrent
\* adapter requests.
NextChildren ==
    \/ \E t \in Callers, p \in DetectingParents, n \in ParentPortNos, d \in Detections :
           childDeviceDetected(t, p, n, d.serial, d.onuId)
    \/ \E t \in Callers : childDeviceDetectedParent(t)
    \/ \E t \in Callers : childDeviceDetectedChild(t)
    \/ \E t \in Callers : childDeviceDetectedStart(t)
    \/ \E t \in Callers : childDeviceDetectedOwn(t)
    \/ \E t \in Callers : Own(getOwnershipReserve(coreInstanceId, t))
    \/ \E t \in Callers : Own(getOwnershipWrite(coreInstanceId, t))
    \/ \E t \in Callers : childDeviceDetectedOwned(t)
    \/ \E t \in Callers : childDeviceDetectedEnable(t)
    \/ \E t \in Callers : GetChildDeviceParent(t)
    \/ \E t \in Callers : GetChildDeviceChild(t)
    \/ \E t \in Callers : LoadSteps(t)
    \/ \E t \in Callers, id \in DeviceIds : addPort(t, id)
    \/ \E t \in Callers : addPortAgent(t)
    \/ \E t \in Callers : addPortPeer(t)

SpecChildren == Init /\ [][NextChildren]_vars

\* The steps of deleteDevice.
DeleteSteps(t) ==
    \/ deleteDeviceAgent(t)
    \/ deleteDeviceStop(t)
    \/ deleteDeviceAbandon(t)

\* delete(id) beside concurrent get and list requests.
NextDelete ==
    \/ \E t \in Callers, id \in KvIds : GetDevice(t, id)
    \/ \E t \in Callers : LoadSteps(t)
    \/ \E t \in Callers : ListDevices(t)
    \/ \E t \in Callers : ListDevicesCheck(t)
    \/ \E t \in Callers : ListDevicesStart(t)
    \/ \E t \in Callers : ListDevicesAdd(t)
    \/ \E t \in Callers, id \in KvIds : deleteDevice(t, id)
    \/ \E t \in Callers : DeleteSteps(t)

SpecDelete == Init /\ [][NextDelete]_vars

\* The steps of deleteAllChildDevices.
DeleteChildrenSteps(t) ==
    \/ deleteAllChildDevicesLoop(t)
    \/ deleteAllChildDevicesAgent(t)
    \/ deleteAllChildDevicesStop(t)

\* Deletions, of a device by one request and of the children of a parent by
\* another, of a device for which this replica has been asked OwnedByMe.
CascadeIds == {"d2"}
NextCascade ==
    \/ \E id \in CascadeIds : Own(getOwnershipLookup(coreInstanceId, "t1", id))
    \/ Own(getOwnershipReserve(coreInstanceId, "t1"))
    \/ Own(getOwnershipWrite(coreInstanceId, "t1"))
    \/ \E t \in Callers : AgentSteps(t)
    \/ \E id \in CascadeIds : deleteDevice("t1", id)
    \/ DeleteSteps("t1")
    \/ deleteAllChildDevices("t2", "d1")
    \/ DeleteChildrenSteps("t2")

SpecCascade == Init /\ [][NextCascade]_vars

\* A parent d1 whose port lists the children d2 and d3, d3 having been
\* detected with the attributes of child; nothing is loaded.
FamilyDevices(child) ==
    [id \in DeviceIds |->
        IF id = "d1"
        THEN [NoDevice EXCEPT !.present = TRUE, !.root = TRUE,
                              !.adminState = "ENABLED", !.peers = <<"d2", "d3">>]
        ELSE IF id = "d2"
        THEN [NoDevice EXCEPT !.present = TRUE, !.parentId = "d1",
                              !.adminState = "ENABLED", !.serial = "S1",
                              !.onuId = 1, !.parentPortNo = 1, !.peers = <<"d1">>]
        ELSE IF id = "d3"
        THEN [child EXCEPT !.present = TRUE, !.parentId = "d1",
                           !.adminState = "ENABLED", !.peers = <<"d1">>]
        ELSE NoDevice]

InitFamily(children) ==
    /\ \E child \in children : devices = FamilyDevices(child)
    /\ deviceAgents = [id \in DeviceIds |-> "none"]
    /\ strays = [id \in DeviceIds |-> 0]
    /\ hydrations = [id \in DeviceIds |-> 0]
    /\ created = 1
    /\ stack = [t \in Callers |-> <<>>]
    /\ ret = [t \in Callers |-> NoRet]
    /\ dmLast = NoLast
    /\ deleted = {}

\* The second child as it may have been detected, and the arguments of
\* GetChildDevice: serial numbers with the empty one, onu ids and port numbers
\* (int64) with zero and with a value above the largest uint32.
MatchChildren ==
    {[NoDevice EXCEPT !.serial = s, !.onuId = o, !.parentPortNo = p] :
        s \in {"S1", "S2"}, o \in {1, 2}, p \in {1, 2}}
MatchSerials == {"", "S1", "S2"}
MatchOnuIds == {0, 1, 2, Uint32Values + 1}
MatchPortNos == {1, 2, Uint32Values + 1}

InitMatch == InitOwn /\ InitFamily(MatchChildren) /\ InitExt

\* GetChildDevice, one request at a time, on devices that do not change.
NextMatch ==
    \/ \E s \in MatchSerials, o \in MatchOnuIds, p \in MatchPortNos :
           GetChildDevice("t1", "d1", s, o, p)
    \/ GetChildDeviceParent("t1")
    \/ GetChildDeviceChild("t1")
    \/ LoadSteps("t1")

SpecMatch == InitMatch /\ [][NextMatch]_vars

\* The proxy addresses asked for, each in an object of the caller or in the
\* object that a stored child holds.
ProxyOnuIds == {1, 2, 3}
ProxyChild == [NoDevice EXCEPT !.serial = "S2", !.onuId = 2, !.parentPortNo = 1]

InitProxy == InitOwn /\ InitFamily({ProxyChild}) /\ InitExt

\* GetChildDeviceWithProxyAddress, one request at a time.
NextProxy ==
    \/ \E o \in ProxyOnuIds, object \in {RequestObject, "d2", "d3"} :
           GetChildDeviceWithProxyAddress("t1", [deviceId |-> "d1", onuId |-> o], object)
    \/ GetChildDeviceWithProxyAddressParent("t1")
    \/ GetChildDeviceWithProxyAddressChild("t1")
    \/ LoadSteps("t1")

SpecProxy == InitProxy /\ [][NextProxy]_vars

\* The lifecycle requests, one at a time, for stored devices and for an id
\* that no device has.
LifecycleIds == {"d1", "d2", "d4"}
NextLifecycle ==
    \/ \E id \in LifecycleIds : enableDevice("t1", id)
    \/ enableDeviceAgent("t1")
    \/ \E id \in LifecycleIds : disableDevice("t1", id)
    \/ disableDeviceAgent("t1")
    \/ \E id \in LifecycleIds : rebootDevice("t1", id)
    \/ rebootDeviceAgent("t1")
    \/ \E id \in LifecycleIds : deleteDevice("t1", id)
    \/ DeleteSteps("t1")
    \/ AgentSteps("t1")

SpecLifecycle == Init /\ [][NextLifecycle]_vars

\* The operations over the children of parent d1, which has two, one at a
\* time.
FanOutChild == [NoDevice EXCEPT !.serial = "S2", !.onuId = 2, !.parentPortNo = 1]

InitFanOut == InitOwn /\ InitFamily({FanOutChild}) /\ InitExt

NextFanOut ==
    \/ disableAllChildDevices("t1", "d1")
    \/ disableAllChildDevicesLoop("t1")
    \/ disableAllChildDevicesAgent("t1")
    \/ deleteAllChildDevices("t1", "d1")
    \/ DeleteChildrenSteps("t1")
    \/ updateChildrenStatus("t1", "d1")
    \/ updateChildrenStatusParent("t1")
    \/ updateChildrenStatusLoop("t1")
    \/ updateChildrenStatusAgent("t1")
    \/ LoadSteps("t1")

SpecFanOut == InitFanOut /\ [][NextFanOut]_vars

\* A restarted replica: parent d1 lists child d2; child d3 has been detected
\* and stored but has no port yet; nothing is loaded.
PortsDevices ==
    [FamilyDevices(FanOutChild) EXCEPT !["d1"].peers = <<"d2">>, !["d3"].peers = <<>>]

InitPorts ==
    /\ InitOwn
    /\ InitExt
    /\ devices = PortsDevices
    /\ deviceAgents = [id \in DeviceIds |-> "none"]
    /\ strays = [id \in DeviceIds |-> 0]
    /\ hydrations = [id \in DeviceIds |-> 0]
    /\ created = 1
    /\ stack = [t \in Callers |-> <<>>]
    /\ ret = [t \in Callers |-> NoRet]
    /\ dmLast = NoLast
    /\ deleted = {}

\* The first port of d3 is added, beside reconciliations and the deletion
\* of the other child, one request at a time.
PortsReconcileIds == {<<"d3">>, <<"d2", "d3">>}
NextPorts ==
    \/ \E ids \in PortsReconcileIds : ReconcileDevices("t1", ids)
    \/ ReconcileDevicesCheck("t1")
    \/ ReconcileDevicesStart("t1")
    \/ ReconcileDevicesAdd("t1")
    \/ deleteDevice("t1", "d2")
    \/ DeleteSteps("t1")
    \/ addPort("t1", "d3")
    \/ addPortAgent("t1")
    \/ addPortPeer("t1")
    \/ AgentSteps("t1")

SpecPorts == InitPorts /\ [][NextPorts]_vars

\* Creation of root devices, detection of children under a root device or
\* under a device that was itself detected, and deletion of children, one
\* request at a time.
HierarchyParents == {"d1", "d3"}
HierarchyDeleted == {"d2", "d3"}
NextHierarchy ==
    \/ createDevice("t1")
    \/ createDeviceStart("t1")
    \/ \E p \in HierarchyParents, n \in ParentPortNos, d \in Detections :
           childDeviceDetected("t1", p, n, d.serial, d.onuId)
    \/ childDeviceDetectedParent("t1")
    \/ childDeviceDetectedChild("t1")
    \/ childDeviceDetectedStart("t1")
    \/ childDeviceDetectedOwn("t1")
    \/ Own(getOwnershipReserve(coreInstanceId, "t1"))
    \/ Own(getOwnershipWrite(coreInstanceId, "t1"))
    \/ childDeviceDetectedOwned("t1")
    \/ childDeviceDetectedEnable("t1")
    \/ GetChildDeviceParent("t1")
    \/ GetChildDeviceChild("t1")
    \/ \E id \in HierarchyDeleted : deleteDevice("t1", id)
    \/ DeleteSteps("t1")
    \/ LoadSteps("t1")

SpecHierarchy == Init /\ [][NextHierarchy]_vars

\* Image downloads for a stored device and for an id no device has, by two
\* callers whose contexts may be cancelled at any moment.
ImageIds == {"d2", "d4"}
NextImages ==
    \/ \E t \in Callers, id \in ImageIds : downloadImage(t, id)
    \/ \E t \in Callers : downloadImageAgent(t)
    \/ \E t \in Callers : sendResponseCheck(t)
    \/ \E t \in Callers : sendResponseSend(t)
    \/ \E t \in Callers : Cancel(t)
    \/ \E t \in Callers : AgentSteps(t)

SpecImages == Init /\ [][NextImages]_vars

\* Updates of the parent d1 and of its child d2, one at a time, for every
\* handler list.
TransitionIds == {"d1", "d2"}
NextTransitions ==
    \/ \E id \in TransitionIds, handlers \in TransitionHandlers :
           processTransition("t1", id, handlers)
    \/ processTransitionLoop("t1")
    \/ processTransitionRan("t1")
    \/ disableAllChildDevicesLoop("t1")
    \/ disableAllChildDevicesAgent("t1")
    \/ DeleteChildrenSteps("t1")
    \/ AgentSteps("t1")

SpecTransitions == Init /\ [][NextTransitions]_vars

\* The registry: starts and restarts, registrations with KV failures, and the
\* calls that read the maps.
NextRegistry ==
    \/ \E fault \in KvFaults : start(fault)
    \/ Crash
    \/ \E t \in Callers, r \in Registrations : registerAdapter(t, r.adapter, r.items)
    \/ \E t \in Callers, kvOk \in BOOLEAN : registerAdapterAdd(t, kvOk)
    \/ \E t \in Callers, failAt \in 0 .. 2 : registerAdapterTypes(t, failAt)
    \/ \E t \in Callers, id \in AdapterIds \cup {""} : listAdaptersCall(t, id)
    \/ \E t \in Callers : listDeviceTypesCall(t)
    \/ \E t \in Callers, id \in AdapterIds : getAdapterCall(t, id)
    \/ \E t \in Callers, d \in DeviceTypeIds : getAdapterNameCall(t, d)
    \/ \E t \in Callers, d \in DeviceTypeIds : getDeviceTypeCall(t, d)

SpecRegistry == Init /\ [][NextRegistry]_vars

\* The bus client's callbacks for one registered adapter, beside the clock.
CommAdapters == {"a1"}
CommRegistrations == {r \in Registrations : r.adapter.id \in CommAdapters}

NextComm ==
    \/ start("")
    \/ \E t \in Callers, r \in CommRegistrations : registerAdapter(t, r.adapter, r.items)
    \/ \E t \in Callers : registerAdapterAdd(t, TRUE)
    \/ \E t \in Callers : registerAdapterTypes(t, 0)
    \/ \E t \in Callers, a \in CommAdapters, timestamp \in 0 .. MaxNow :
          updateLastAdapterCommunication(t, a, timestamp)
    \/ \E t \in Callers : updateCommunicationTime(t)
    \/ ClockTick

SpecComm == Init /\ [][NextComm]_vars

\* Callers that write to the adapter records they were given.
NextCopies ==
    \/ start("")
    \/ \E t \in Callers, r \in Registrations : registerAdapter(t, r.adapter, r.items)
    \/ \E t \in Callers : registerAdapterAdd(t, TRUE)
    \/ \E t \in Callers : registerAdapterTypes(t, 0)
    \/ \E t \in Callers, id \in AdapterIds \cup {""} : listAdaptersCall(t, id)
    \/ \E t \in Callers, id \in AdapterIds : getAdapterCall(t, id)
    \/ \E t \in Callers : MutateReturned(t)

SpecCopies == Init /\ [][NextCopies]_vars

\* Concurrent operations of the registry, as the locks see them.
NextLocks ==
    \/ \E t \in Callers, steps \in LockPrograms : LockCall(t, steps)
    \/ \E t \in Callers : LockWait(t)
    \/ \E t \in Callers : Lock(t)
    \/ \E t \in Callers : RLock(t)
    \/ \E t \in Callers : Unlock(t)
    \/ \E t \in Callers : RUnlock(t)

SpecLocks == Init /\ [][NextLocks]_vars

\* Registrations made one at a time, with KV failures and restarts of the core.
NextRetry ==
    \/ \E fault \in KvFaults : start(fault)
    \/ Crash
    \/ \E r \in Registrations : registerAdapter("t1", r.adapter, r.items)
    \/ \E kvOk \in BOOLEAN : registerAdapterAdd("t1", kvOk)
    \/ \E failAt \in 0 .. 2 : registerAdapterTypes("t1", failAt)
    \/ \E d \in DeviceTypeIds : getAdapterNameCall("t1", d)

SpecRetry == Init /\ [][NextRetry]_vars

\* get(id) of the stored devices from concurrent requests, one of which also
\* makes delete(id) requests, each request goroutine being scheduled for as long as it can run: a goroutine
\* inside lookup-or-load waits for nothing but the agent table's lock, which
\* every holder releases.
NextLoad ==
    \/ \E t \in Callers, id \in KvIds : GetDevice(t, id)
    \/ \E t \in Callers : LoadSteps(t)
    \/ \E id \in KvIds : deleteDevice("t2", id)
    \/ DeleteSteps("t2")

SpecLoad ==
    /\ Init
    /\ [][NextLoad]_vars
    /\ \A t \in Callers : WF_vars(LoadSteps(t))

\* The steps of a downloadImage goroutine after its entry.
DispatchSteps(t) ==
    \/ downloadImageAgent(t)
    \/ sendResponseCheck(t)
    \/ sendResponseSend(t)
    \/ AgentSteps(t)

\* Image download requests whose contexts can be cancelled at any point, each
\* request goroutine being scheduled for as long as it can run.
SpecDispatch ==
    /\ Init
    /\ [][NextImages]_vars
    /\ \A t \in Callers : WF_vars(DispatchSteps(t))

(***************************************************************************)
(* Claims about the ownership arbiter.                                     *)
(***************************************************************************)
Running(r, c) == monitor[r][c].pc \notin {"idle", "done"}

\* C1: with a KV store that always answers and monitors that tick on time, at
\* most one replica's entry for a device id has owned = true in any state.
C1_AtMostOneOwner ==
    \A id \in DeviceIds : Cardinality(OwnersOf(id)) <= 1

\* C1 witness: one replica owns the device while a peer holds an entry for it
\* with owned = false and the peer's monitor has gone through a retry.
C1_Contended ==
    \E id \in DeviceIds, a \in Replicas, b \in Replicas :
        /\ a # b
        /\ deviceMap[a][id].owned
        /\ exist(b, id) /\ ~deviceMap[b][id].owned
        /\ \E c \in Chnls : monitor[b][c].pc = "select" /\ monitor[b][c].id = id

\* C2: after the owner's renewals fail and a peer has reserved the expired
\* lease, both replicas report owned = true for at most reservationTimeout
\* seconds.
C2_DualOwnershipBounded ==
    \A id \in DeviceIds : overlap[id] <= reservationTimeout

\* C3: lease handoff -- once a peer holds the lease and reports owned = true,
\* the old owner's next monitor iteration (read, KV call, back at the select)
\* leaves the old owner's flag false.
C3_NextTickObservesLoss ==
    \A r \in Replicas, c \in Chnls :
        (monitor[r][c].pc = "select" /\ monitor[r][c].lost)
            => ~deviceMap[r][monitor[r][c].id].owned

\* C4: a first OwnedByMe(id) (no entry) returns true iff Reserve returned this
\* replica's id -- false for a peer's id and for no value -- and the flag it
\* records equals what it returns.
C4_FirstCallFollowsReserve ==
    (last.op = "OwnedByMe" /\ last.cold) =>
        /\ last.owned = (last.value = last.r)
        /\ last.recorded = last.owned

\* C4 witness: a first call has just returned false because Reserve gave the
\* peer's id.
C4_PeerHoldsKey ==
    /\ last.op = "OwnedByMe" /\ last.cold
    /\ last.value \in Replicas \ {last.r}
    /\ ~last.owned

\* C5: after Stop every monitor of the replica terminates.  Finite form: once
\* the value Stop sent has been received, no monitor of the replica is still
\* running (nothing is left on exitChannel to end it).
C5_StopEndsEveryMonitor ==
    \A r \in Replicas :
        (stopped[r] /\ exitChannel[r] = 0) => \A c \in Chnls : ~Running(r, c)

\* C6: after AbandonDevice(id) with no OwnedByMe(id) in progress or issued
\* later, the replica's monitor for id terminates.  Finite form: while the id
\* has no entry and no caller is inside getOwnership for it, every monitor
\* still running for it has had its channel closed (so it leaves at its next
\* select and stops refreshing the lease).
C6_AbandonedMonitorStops ==
    \A r \in Replicas, id \in DeviceIds :
        (~exist(r, id) /\ \A t \in Callers : calls[r][t].id # id)
            => \A c \in Chnls :
                   (Running(r, c) /\ monitor[r][c].id = id) => c \in closed[r]

\* C7: AbandonDevice(id) returns not-found exactly when id has no entry, and
\* then changes neither the map, the channels, the monitors nor the KV store;
\* on an entry it closes that entry's channel, removes that entry and no
\* other, and leaves the KV store alone.
C7_AbandonEffect ==
    [][last'.op = "AbandonDevice" =>
         IF last'.err = "not-found"
         THEN /\ ~exist(last'.r, last'.id)
              /\ UNCHANGED <<deviceMap, closed, monitor, kvReservations>>
         ELSE /\ exist(last'.r, last'.id)
              /\ closed' = [closed EXCEPT ![last'.r] =
                               @ \cup {deviceMap[last'.r][last'.id].chnl}]
              /\ deviceMap'[last'.r][last'.id] = NoOwnership
              /\ \A r \in Replicas, id \in DeviceIds :
                     <<r, id>> # <<last'.r, last'.id>>
                         => deviceMap'[r][id] = deviceMap[r][id]
              /\ UNCHANGED <<monitor, kvReservations>>]_vars

\* C7 witness: AbandonDevice has just failed with not-found on a replica that
\* holds an entry and a running monitor for another device.
C7_NotFoundBesideEntry ==
    /\ last.op = "AbandonDevice" /\ last.err = "not-found"
    /\ \E id \in DeviceIds \ {last.id}, c \in Chnls :
           /\ exist(last.r, id)
           /\ Running(last.r, c) /\ monitor[last.r][c].id = id

(***************************************************************************)
(* Claims about the device manager.                                        *)
(***************************************************************************)
\* C8: for each device id at most one agent that has been started and not
\* stopped exists, and it is the one in the agent table: no started agent is
\* left outside the table, whatever the interleaving of get, list, reconcile,
\* load and create.
C8_NoAgentOutsideTable ==
    \A id \in DeviceIds : strays[id] = 0

\* C9: concurrent get(id) calls on an empty agent table, for an id present in
\* the KV store, hydrate the id exactly once: no id is ever loaded from the
\* store by a second agent.start.
C9_HydratesOnce ==
    \A id \in ColdIds : hydrations[id] <= 1

\* C10: child detections under one parent with the same serial number, onu id
\* and parent port create one child device: no two devices of the replica
\* share parent, serial number, onu id and parent port.
C10_OneChildPerDetection ==
    \A a \in DeviceIds, b \in DeviceIds :
        (/\ devices[a].present /\ devices[b].present
         /\ ~devices[a].root /\ ~devices[b].root
         /\ devices[a].parentId = devices[b].parentId
         /\ devices[a].serial = devices[b].serial
         /\ devices[a].onuId = devices[b].onuId
         /\ devices[a].parentPortNo = devices[b].parentPortNo)
            => a = b

\* C11: once delete(id) has returned success, the agent table does not
\* contain id, and a get(id) answered from then on is answered not-found,
\* whatever get and list requests run beside the delete.
C11_DeletedStaysOut ==
    /\ \A id \in deleted : ~IsDeviceInCache(id)
    /\ (dmLast.frame.fn = "GetDevice" /\ dmLast.frame.id \in deleted)
           => ~dmLast.ret.ok

\* C12: the step that completes the deletion of a device, by deleteDevice or
\* as a child in deleteAllChildDevices, leaves this replica with no ownership
\* entry for the device and with no monitor for it whose channel is open.
C12_DeletionAbandons ==
    [][\A id \in deleted' \ deleted :
           /\ deviceMap'[coreInstanceId][id] = NoOwnership
           /\ \A c \in Chnls :
                  (monitor'[coreInstanceId][c].pc \notin {"idle", "done"}
                      /\ monitor'[coreInstanceId][c].id = id)
                  => c \in closed'[coreInstanceId]]_vars

\* The matching rule of get_child as stated: with onu_id > 0 and a non-empty
\* serial_no both the serial number and (onu id with parent port) must match,
\* otherwise either.
RuleMatches(dev, serial, onu, port) ==
    LET onuMatch == dev.onuId = onu /\ dev.parentPortNo = port
        serialMatch == dev.serial = serial
    IN IF onu > 0 /\ serial # "" THEN onuMatch /\ serialMatch
                                  ELSE onuMatch \/ serialMatch

\* The positions in the peer list of the children that match.
RuleMatching(f) ==
    {k \in 1 .. Len(devices[f.id].peers) :
        /\ devices[devices[f.id].peers[k]].present
        /\ RuleMatches(devices[devices[f.id].peers[k]], f.serial, f.onuId, f.port)}

\* The answer of GetChildDevice is the first matching child, or not-found
\* when there is none.
RuleAnswered(f, r) ==
    IF RuleMatching(f) = {}
    THEN ~r.ok /\ r.err = "not-found"
    ELSE /\ r.ok
         /\ \A k \in RuleMatching(f) : f.i <= k
         /\ f.i \in RuleMatching(f)
         /\ r.dev = devices[devices[f.id].peers[f.i]]

\* C13 as stated: every answer of get_child(parent, serial_no, onu_id,
\* parent_port) is the first child in peer-list order that matches by the
\* rule, not-found when none does, for every onu_id and parent_port.
C13_FirstMatchAnyInput ==
    dmLast.frame.fn = "GetChildDevice" => RuleAnswered(dmLast.frame, dmLast.ret)

\* C13: for onu_id and parent_port within the range of uint32, every answer
\* of get_child is the first child in peer-list order that matches by the
\* rule, not-found when none does.
C13_FirstMatch ==
    (/\ dmLast.frame.fn = "GetChildDevice"
     /\ dmLast.frame.onuId \in 0 .. Uint32Values - 1
     /\ dmLast.frame.port \in 0 .. Uint32Values - 1)
        => RuleAnswered(dmLast.frame, dmLast.ret)

\* C13 witness: get_child with both onu_id and serial_no given has passed
\* over a first child that matches the onu id and port only, and answered
\* with the second child, which matches both.
C13_SecondChildFound ==
    /\ dmLast.frame.fn = "GetChildDevice" /\ dmLast.ret.ok
    /\ dmLast.frame.onuId > 0 /\ dmLast.frame.serial # ""
    /\ dmLast.frame.onuId < Uint32Values /\ dmLast.frame.port < Uint32Values
    /\ dmLast.frame.i = 2
    /\ devices["d2"].onuId = dmLast.frame.onuId
    /\ devices["d2"].parentPortNo = dmLast.frame.port

\* The positions in the peer list of the children whose proxy address equals
\* the requested one as a tuple.
AddressMatching(f) ==
    {k \in 1 .. Len(devices[f.id].peers) :
        /\ devices[devices[f.id].peers[k]].present
        /\ ProxyAddress(devices[devices[f.id].peers[k]])
               = [deviceId |-> f.id, onuId |-> f.onuId]}

\* C14: get_child_with_proxy_address(addr) answers with a child of the
\* addressed parent whose proxy address equals addr as a tuple whenever there
\* is one, whichever object holds addr, and with not-found otherwise.
C14_TupleEquality ==
    dmLast.frame.fn = "GetChildDeviceWithProxyAddress" =>
        IF AddressMatching(dmLast.frame) = {}
        THEN ~dmLast.ret.ok /\ dmLast.ret.err = "not-found"
        ELSE /\ dmLast.ret.ok
             /\ dmLast.frame.i \in AddressMatching(dmLast.frame)

\* C15: get(id) is answered with an error only when the id's own record is
\* absent from the KV store, whatever the state of its parent and children.
C15_PresentIsFound ==
    (dmLast.frame.fn = "GetDevice" /\ ~dmLast.ret.ok)
        => ~devices[dmLast.frame.id].present

\* The ids that no device has had: those not in the store at the start and
\* not yet given to a created device.
NeverStored == {FreshIds[k] : k \in {j \in DOMAIN FreshIds : j > created}}

\* C16: enable, disable, reboot and delete of a device id that is absent from
\* memory and from the KV store are answered with not-found, never with
\* success.
C16_AbsentIsNotFound ==
    (/\ dmLast.frame.fn \in {"enableDevice", "disableDevice", "rebootDevice",
                             "deleteDevice"}
     /\ dmLast.frame.id \in NeverStored)
        => ~dmLast.ret.ok /\ dmLast.ret.err = "not-found"

\* C17: disable_all_children and delete_all_children go through every child
\* id, and return an error exactly when the operation failed on at least one
\* child, whether or not later children succeeded.
C17_AnyFailureIsReported ==
    dmLast.frame.fn \in {"disableAllChildDevices", "deleteAllChildDevices"} =>
        /\ dmLast.frame.i = Len(dmLast.frame.kids)
        /\ dmLast.ret.ok <=> dmLast.frame.failed = {}

\* C18: update_children_status, once it has the parent, goes through every
\* child id: a failure on one child does not keep it from the children after
\* it, and its answer comes after the last child.
C18_UpdateReachesEveryChild ==
    (dmLast.frame.fn = "updateChildrenStatus" /\ dmLast.frame.pc # "parent")
        => dmLast.frame.i = Len(dmLast.frame.kids)

\* C19: when add_port(A, port with peer B) has returned success, device B
\* lists A as a peer.
C19_ReciprocalPeer ==
    (dmLast.frame.fn = "addPort" /\ dmLast.ret.ok)
        => \E k \in DOMAIN devices[dmLast.frame.child].peers :
               devices[dmLast.frame.child].peers[k] = dmLast.frame.id

\* C20: every stored device with root = false has a non-empty parent id, and
\* whenever a device with that id is stored it is a root device: child
\* detection creates children under root devices only.
C20_ChildHasRootParent ==
    \A id \in DeviceIds :
        (devices[id].present /\ ~devices[id].root)
            => /\ devices[id].parentId # ""
               /\ devices[devices[id].parentId].present
                      => devices[devices[id].parentId].root

\* C21: a result is put on a request's reply channel only in a step taken
\* while the request's context is live.
C21_DeliveredOnlyWhileLive ==
    [][\A t \in Callers :
          (reply'[t] # reply[t] /\ reply'[t] # NoRet) => ~ctxErr[t]]_vars

\* C22: process_transition for a handler list that contains not_allowed
\* returns an error of kind failed-precondition.
C22_NotAllowedIsFailedPrecondition ==
    (/\ dmLast.frame.fn = "processTransition"
     /\ \E k \in DOMAIN dmLast.frame.kids : dmLast.frame.kids[k] = "notAllowed")
        => ~dmLast.ret.ok /\ dmLast.ret.err = "failed-precondition"

(***************************************************************************)
(* C23: in every reachable state of the registry, after a start on an      *)
(* empty or a populated KV store and any registrations, what listAdapters  *)
(* returns holds no adapter with the id adapter_sentinel and what          *)
(* listDeviceTypes returns holds no device type with the id                *)
(* device_type_sentinel.                                                   *)
(***************************************************************************)
C23_ListsOmitSentinels ==
    /\ \A a \in listAdapters(adapterAgents) : a.id # SentinelAdapterID
    /\ \A d \in listDeviceTypes(adapterAgents, deviceTypeToAdapterMap) :
           d.id # SentinelDevicetypeID
    /\ regLast.op = "listAdapters" => SentinelAdapterID \notin regLast.adapters
    /\ regLast.op = "listDeviceTypes" => SentinelDevicetypeID \notin regLast.deviceTypes

\* Both sentinels are in the maps, next to a registered adapter and its device
\* type, and listAdapters has just returned the registered adapter.
C23_SentinelsStoredAndListed ==
    /\ adapterAgents[SentinelAdapterID].present
    /\ deviceTypeToAdapterMap[SentinelDevicetypeID] = SentinelAdapterID
    /\ adapterAgents[SentinelAdapterID].deviceTypes[SentinelDevicetypeID] # ""
    /\ listDeviceTypes(adapterAgents, deviceTypeToAdapterMap) # {}
    /\ regLast.op = "listAdapters"
    /\ regLast.adapters # {}

(***************************************************************************)
(* C24: no lookup of the registry returns a sentinel: getAdapterName never *)
(* returns adapter_sentinel, whatever device type it is asked about,       *)
(* getAdapter(adapter_sentinel) returns no adapter and                     *)
(* getDeviceType(device_type_sentinel) returns no device type.             *)
(***************************************************************************)
C24_LookupsOmitSentinels ==
    /\ regLast.op = "getAdapterName" => regLast.name # SentinelAdapterID
    /\ (regLast.op = "getAdapter" /\ regLast.arg = SentinelAdapterID)
           => regLast.adapters = {}
    /\ (regLast.op = "getDeviceType" /\ regLast.arg = SentinelDevicetypeID)
           => regLast.deviceTypes = {}

(***************************************************************************)
(* C25: under any interleaving of the callbacks for an adapter, the time   *)
(* of last communication stored for it never decreases and is never after  *)
(* the current time.                                                       *)
(***************************************************************************)
C25_LastCommunicationMonotone ==
    [][\A a \in AdapterIds :
          (adapterAgents[a].present /\ adapterAgents'[a].present) =>
              /\ ~After(adapterAgents[a].adapter.lastCommunication,
                        adapterAgents'[a].adapter.lastCommunication)
              /\ ~After(adapterAgents'[a].adapter.lastCommunication, TimeNow')]_vars

(***************************************************************************)
(* C26: the adapter records returned by getAdapter and listAdapters are    *)
(* copies: a caller that writes to a record it was given changes nothing   *)
(* in the adapters the registry stores.                                    *)
(***************************************************************************)
C26_ReturnedRecordsAreCopies ==
    [][regLast'.op = "mutate" => adapterAgents' = adapterAgents]_vars

(***************************************************************************)
(* C27: registerAdapter for an adapter id that is already in the adapter   *)
(* table is a restart: it never takes the path of a new registration, it   *)
(* returns the core instance id without an error, starts adapterRestarted, *)
(* and leaves the adapter table, the device-type map and the KV rows of    *)
(* adapters and device types as they were.                                 *)
(***************************************************************************)
C27_PresentAdapterIsRestart ==
    [][\A t \in Callers :
          /\ (regCalls[t].pc = "idle" /\ regCalls'[t].pc = "addAdapter")
                 => ~adapterAgents[regCalls'[t].adapter.id].present
          /\ (regCalls[t].pc = "idle" /\ regLast'.op = "registerAdapter"
                 /\ regLast'.t = t)
                 => /\ adapterAgents[regLast'.arg].present
                    /\ regLast'.restarted
                    /\ regLast'.instance = coreInstanceId
                    /\ regLast'.err = ""
                    /\ regCalls'[t].pc = "idle"
                    /\ UNCHANGED <<adapterAgents, deviceTypeToAdapterMap,
                                   kvAdapters, kvDeviceTypes>>]_vars

\* Adapter a1, registered with its device types, has registered again.
C27_RegisteredAgain ==
    /\ regLast.op = "registerAdapter"
    /\ regLast.arg = "a1"
    /\ regLast.restarted
    /\ regLast.instance = coreInstanceId
    /\ "a1" \in kvAdapters
    /\ deviceTypeToAdapterMap["dt1"] = "a1"
    /\ adapterAgents["a1"].deviceTypes["dt1"] = "a1"

(***************************************************************************)
(* C28: when start returns without an error on a KV store that held no     *)
(* adapter and no device type, the sentinel adapter is stored under        *)
(* "adapters" and the sentinel device type under "device_types"; when it   *)
(* returns on a store that held rows, every adapter and every device type  *)
(* of the store is in the maps.                                            *)
(***************************************************************************)
C28_LoadMaterializesPrefixes ==
    [][(regLast'.op = "start" /\ regLast'.err = "") =>
          /\ (kvAdapters = {} /\ kvDeviceTypes = NoDeviceTypes) =>
                 /\ SentinelAdapterID \in kvAdapters'
                 /\ kvDeviceTypes'[SentinelDevicetypeID] # ""
          /\ \A a \in kvAdapters : adapterAgents'[a].present
          /\ \A d \in DeviceTypeIds :
                 kvDeviceTypes[d] # "" =>
                    /\ deviceTypeToAdapterMap'[d] = kvDeviceTypes[d]
                    /\ adapterAgents'[kvDeviceTypes[d]].deviceTypes[d] # ""]_vars

(***************************************************************************)
(* C29: the owned flag of a replica's entry for a device goes from true to *)
(* false only in a step that applies a reserve attempt which returned the  *)
(* instance id of another owner, whatever the interleaving of OwnedByMe,   *)
(* AbandonDevice, the monitors' iterations and the KV failures.            *)
(***************************************************************************)
C29_FlipOnlyOnOtherOwner ==
    [][\A r \in Replicas, id \in DeviceIds :
          (/\ exist(r, id) /\ deviceMap[r][id].owned
           /\ deviceMap'[r][id].chnl # 0 /\ ~deviceMap'[r][id].owned) =>
              \/ \E c \in Chnls :
                     /\ monitor[r][c].pc = "set" /\ monitor'[r][c].pc = "select"
                     /\ monitor[r][c].id = id
                     /\ monitor[r][c].value \notin {None, r}
              \/ \E t \in Callers :
                     /\ calls[r][t].pc = "write" /\ calls'[r][t].pc = "idle"
                     /\ calls[r][t].id = id
                     /\ calls[r][t].value \notin {None, r}]_vars

(***************************************************************************)
(* C30: a renew or reserve that fails in an iteration of a monitor does    *)
(* not end the monitor, and a failed renew leaves the owned flag true: the *)
(* monitor goes to its select with a new timer, and it ends only on its    *)
(* closed channel or on the exit channel.                                  *)
(***************************************************************************)
C30_FailureKeepsMonitor ==
    [][\A r \in Replicas, c \in Chnls :
          /\ (monitor[r][c].pc # "done" /\ monitor'[r][c].pc = "done")
                 => (c \in closed[r] \/ exitChannel[r] = 1)
          /\ (/\ MonitorDue(r, c) /\ MonitorOwned(r, c)
              /\ monitor'[r][c] # monitor[r][c]
              /\ monitor'[r][c].pc # "done"
              /\ RenewFails(r, monitor[r][c].id))
                 => /\ monitor'[r][c].pc = "select"
                    /\ monitor'[r][c].timer = MonitorPeriod
                    /\ deviceMap'[r][monitor[r][c].id] = deviceMap[r][monitor[r][c].id]
          /\ (/\ monitor[r][c].pc = "set" /\ monitor[r][c].value = None
              /\ monitor'[r][c] # monitor[r][c])
                 => /\ monitor'[r][c].pc = "select"
                    /\ monitor'[r][c].timer = MonitorPeriod]_vars

\* A monitor whose renewal failed, the key being another replica's, waits in
\* its select for the next iteration, its entry still owned.
C30_RenewFailedStillOwned ==
    \E r \in Replicas, c \in Chnls :
        /\ monitor[r][c].pc = "select"
        /\ monitor[r][c].lost
        /\ monitor[r][c].timer > 0
        /\ c \notin closed[r]
        /\ deviceMap[r][monitor[r][c].id].chnl = c
        /\ deviceMap[r][monitor[r][c].id].owned

(***************************************************************************)
(* C31: at any instant a replica runs at most one monitoring goroutine per *)
(* device id, whatever the interleaving of concurrent first OwnedByMe(id)  *)
(* calls and of AbandonDevice(id) followed by a new OwnedByMe(id).         *)
(***************************************************************************)
C31_OneMonitorPerDevice ==
    \A r \in Replicas, id \in DeviceIds :
        Cardinality({c \in Chnls : Running(r, c) /\ monitor[r][c].id = id}) <= 1

(***************************************************************************)
(* C32: processTransition runs the handlers of the list it looked up one   *)
(* at a time in the order of the list; the first handler that returns an   *)
(* error ends the chain, its error is returned and no later handler runs;  *)
(* with no handlers nothing runs and nil is returned.                      *)
(***************************************************************************)
C32_ChainStopsAtFirstError ==
    /\ \A t \in Callers : \A k \in DOMAIN stack[t] :
           stack[t][k].fn = "processTransition" =>
              /\ Len(stack[t][k].tried) = stack[t][k].i
              /\ stack[t][k].tried = SubSeq(stack[t][k].kids, 1, stack[t][k].i)
              /\ stack[t][k].err = ""
    /\ dmLast.frame.fn = "processTransition" =>
           LET f == dmLast.frame
           IN  /\ f.tried = SubSeq(f.kids, 1, Len(f.tried))
               /\ dmLast.ret.ok => (f.tried = f.kids /\ f.err = "")
               /\ ~dmLast.ret.ok => /\ f.tried # <<>>
                                    /\ f.err # ""
                                    /\ dmLast.ret.err = f.err

\* The first of two handlers returned an error and the second did not run.
C32_SecondHandlerSkipped ==
    /\ dmLast.frame.fn = "processTransition"
    /\ ~dmLast.ret.ok
    /\ Len(dmLast.frame.kids) >= 2
    /\ Len(dmLast.frame.tried) = 1
    /\ dmLast.ret.err = "failed"

(***************************************************************************)
(* C33: the registry cannot deadlock: an operation that holds both         *)
(* lockAdaptersMap and lockdDeviceTypeToAdapterMap took lockAdaptersMap    *)
(* first, and no set of concurrent operations reaches a state in which     *)
(* each of them waits for a lock that another of them holds or waits for.  *)
(***************************************************************************)
Holds(t, name) == \E k \in DOMAIN lockCalls[t].held : lockCalls[t].held[k] = name

\* The callers that keep t from going on.
Blockers(t) ==
    LET l == rwLocks[NextDo(t).on]
    IN  IF NextDo(t).do = "Lock"
        THEN ({l.writer} \ {None}) \cup l.readers
        ELSE ({l.writer} \ {None}) \cup l.pending

Deadlocked(S) ==
    /\ S # {}
    /\ \A t \in S : /\ lockCalls[t].steps # <<>>
                     /\ ~CanDo(t)
                     /\ Blockers(t) \subseteq S

C33_RegistryDeadlockFree ==
    /\ \A t \in Callers :
           (Holds(t, "lockAdaptersMap") /\ Holds(t, "lockdDeviceTypeToAdapterMap")) =>
              \E j, k \in DOMAIN lockCalls[t].held :
                 /\ j < k
                 /\ lockCalls[t].held[j] = "lockAdaptersMap"
                 /\ lockCalls[t].held[k] = "lockdDeviceTypeToAdapterMap"
    /\ \A S \in SUBSET Callers : ~Deadlocked(S)

\* One caller holds both locks of the manager while the other waits for one
\* of them.
C33_BothHeldOtherWaits ==
    \E t, u \in Callers :
        /\ t # u
        /\ Holds(t, "lockAdaptersMap") /\ Holds(t, "lockdDeviceTypeToAdapterMap")
        /\ lockCalls[u].steps # <<>>
        /\ ~CanDo(u)
        /\ t \in Blockers(u)

(***************************************************************************)
(* C34: the ownership map is inserted into, deleted from and modified only *)
(* with its write lock held, that is while no goroutine holds its read     *)
(* lock: no write of the map runs beside another write or a read, two      *)
(* concurrent first OwnedByMe calls included.                              *)
(***************************************************************************)
C34_MapWrittenUnderWriteLock ==
    [][\A r \in Replicas : deviceMap'[r] # deviceMap[r] => Readers(r) = {}]_vars

(***************************************************************************)
(* C35: registerAdapter is all or nothing: when it returns an error, the   *)
(* adapter table and the device-type map are as they were when it was      *)
(* called, the adapter being still absent, so that the same registration   *)
(* made again is a new registration.                                       *)
(***************************************************************************)
C35_FailedRegistrationLeavesNoAgent ==
    [][(regLast'.op = "registerAdapter" /\ regLast'.err # "") =>
          /\ ~adapterAgents'[regLast'.arg].present
          /\ deviceTypeToAdapterMap' = deviceTypeToAdapterMap]_vars

(***************************************************************************)
(* C36: in every reachable state of the registry the two maps agree: the   *)
(* adapter a device type is mapped to is in the adapter table and its      *)
(* agent holds the device type; and every device type an agent holds names *)
(* the adapter of that agent as its adapter.                               *)
(***************************************************************************)
C36_MapsAgree ==
    /\ \A d \in DeviceTypeIds :
           deviceTypeToAdapterMap[d] # "" =>
              /\ adapterAgents[deviceTypeToAdapterMap[d]].present
              /\ adapterAgents[deviceTypeToAdapterMap[d]].deviceTypes[d] # ""
    /\ \A a \in AdapterIds, d \in DeviceTypeIds :
           (adapterAgents[a].present /\ adapterAgents[a].deviceTypes[d] # "") =>
              adapterAgents[a].deviceTypes[d] = a

(***************************************************************************)
(* C37: load(id) terminates: on a store where the parent of every non-root *)
(* device is a root device, a goroutine that is inside load leaves it,     *)
(* whatever other requests delete or hydrate the same devices meanwhile.   *)
(***************************************************************************)
Loading(t) == \E i \in DOMAIN stack[t] : stack[t][i].fn = "load"

C37_LoadTerminates == \A t \in Callers : Loading(t) ~> ~Loading(t)

\* A load of a device runs inside a load of the same device: the agent that
\* loadDevice had added was deleted before getDeviceAgent looked it up.
C37_LoadInsideLoad ==
    \E t \in Callers : \E i, j \in DOMAIN stack[t] :
        /\ i < j
        /\ stack[t][i].fn = "load" /\ stack[t][j].fn = "load"
        /\ stack[t][i].id = stack[t][j].id
        /\ hydrations[stack[t][i].id] > 0

(***************************************************************************)
(* C38: a dispatcher goroutine always finishes: whenever the context of    *)
(* its caller is cancelled, between the test of ctx.Err() and the send on  *)
(* the reply channel included, the goroutine that runs the request ends.   *)
(***************************************************************************)
C38_DispatcherFinishes ==
    \A t \in Callers : (stack[t] # <<>>) ~> (stack[t] = <<>>)

====
